---- MODULE Spec2Model ----
(***************************************************************************)
(* T-GCSM v2.0 simulation engine (src/tgcsm/engine.py, models.py):         *)
(* the turn phase machine, action execution, combat resolution,            *)
(* reinforcement landing and the end-of-turn purge / victory check.        *)
(*                                                                         *)
(* Reals of the source are carried exactly: lift capacity in units of      *)
(* 1/LiftScale, movement costs in half points, combat powers as            *)
(* numerator/denominator pairs.                                            *)
(***************************************************************************)
EXTENDS Integers, Sequences, FiniteSets, TLC

(***************************************************************************)
(* Bounds of the model                                                     *)
(***************************************************************************)
\* longest action list a strategy returns from choose_actions
MaxActions == 2
\* largest percentage handed to take_damage in the damage specification
MaxPct == 130
\* turns of a run that are explored; a run still going after them is left there
MaxTurnsExplored == 2

(***************************************************************************)
(* Program constants (config.py)                                           *)
(***************************************************************************)
MAX_TURNS == 10
MAX_SUPPLY_DISTANCE == 10
D20_SIDES == 20
PLA_INITIAL_AMPHIBIOUS_CAPACITY == 300
\* PLA_LIFT_CAPACITY_DECAY_RATE = 0.25 = 1 / PLA_LIFT_CAPACITY_DECAY_DEN
PLA_LIFT_CAPACITY_DECAY_DEN == 4
ARTILLERY_RANGE == 2
\* run_air_sea_phase decays the capacity while turn_number <= 4
LIFT_DECAY_LAST_TURN == 4
\* is_supply_source: coastal beachhead counts while turn_number <= 3
BEACHHEAD_LAST_TURN == 3
\* is_supply_source: ROC sources are the hexes with q >= 9 (column J)
ROC_SUPPLY_MIN_Q == 9
\* retreat_units: flat percentage handed to take_damage when no retreat hex exists
NO_RETREAT_DAMAGE == 10
\* resolve_combat: odds_ratio = 99.0 when total_defense_power is 0
FALLBACK_ODDS == 99

\* capacity is held in units of 1/LiftScale so that four decays by 1/4 stay exact
LiftScale == 4 * 4 * 4 * 4

(***************************************************************************)
(* Enumerations (enums.py)                                                 *)
(***************************************************************************)
PLA == "PLA"
ROC == "ROC"
Faction == {PLA, ROC}
NoFaction == "None"

UnitType == {"Armor", "Mechanized", "Infantry", "Artillery", "Engineer", "AttackHelo"}

In_Supply == "In_Supply"
Out_Of_Supply == "Out_Of_Supply"

AIR_SEA_EFFECTS == "Air & Sea Effects Phase"
SUPPLY_STATUS == "Supply Status Determination Phase"
PLAYER_ACTION == "Player Action Phase"
COMBAT_RESOLUTION == "Combat Resolution Phase"
LOGISTICS_REINFORCEMENT == "Logistics & Reinforcement Phase"
END_OF_TURN == "End of Turn & Victory Check Phase"
NoPhase == "None"

MOVE == "MOVE"
ATTACK == "ATTACK"
FORTIFY == "FORTIFY"
ARTILLERY_SUPPORT == "ARTILLERY_SUPPORT"
PASS == "PASS"

(***************************************************************************)
(* Reference data: a four-hex map around the capital and four battalions.  *)
(* A hex id "A10" is the pair <<"A", 10>> (column letter, row number).     *)
(***************************************************************************)
NoHex == <<"", 0>>
TAIPEI == <<"A", 10>>

\* rows of the hex table, in file order (the order of the self.hexes dict)
HexOrder == << <<"A", 10>>, <<"A", 11>>, <<"B", 10>>, <<"B", 11>> >>
HexIds == {HexOrder[i] : i \in 1..Len(HexOrder)}

terrain_type(h) ==
    CASE h = <<"A", 10>> -> "Urban"
      [] h = <<"A", 11>> -> "Coastal"
      [] h = <<"B", 10>> -> "Plains"
      [] h = <<"B", 11>> -> "Hills"
      [] h \in {<<"A", 12>>, <<"A", 13>>, <<"B", 12>>} -> "Coastal"
      [] h = <<"B", 13>> -> "Ocean"
      [] h \in {<<"B", 9>>, <<"C", 9>>} -> "Plains"
      [] h = <<"C", 8>> -> "Mountain"
      [] h \in {<<"C", 10>>, <<"D", 5>>} -> "Urban"
      [] OTHER -> "Plains"

is_port(h) == h = <<"A", 11>>
is_airfield(h) == h = <<"A", 10>>

\* terrain_modifiers table: movement_cost_factor, in half points
MovementCostHalves(t) ==
    CASE t = "Plains" -> 2
      [] t = "Hills" -> 4
      [] t = "Mountain" -> 8
      [] t = "Urban" -> 4
      [] t = "Forest" -> 3
      [] t = "River_Crossing" -> 6
      [] t = "Coastal" -> 2
      [] t = "Ocean" -> 198
      [] OTHER -> 2

\* terrain_modifiers table: defense_multiplier, in tenths
DefenseMultiplierTenths(t) ==
    CASE t = "Plains" -> 10
      [] t = "Hills" -> 15
      [] t = "Mountain" -> 18
      [] t = "Urban" -> 20
      [] t = "Forest" -> 13
      [] t = "River_Crossing" -> 11
      [] t = "Coastal" -> 10
      [] t = "Ocean" -> 10
      [] OTHER -> 10

\* Unit objects the order-of-battle tables can create
AllUnits == {"P1", "P2", "R1", "R2"}
\* an id no Unit object carries (a stale reference in an action record)
GhostUnit == "GHOST"
NoUnit == ""

faction(u) == IF u \in {"P1", "P2", "P3"} THEN PLA ELSE ROC

unit_type(u) ==
    CASE u = "P1" -> "Armor"
      [] u = "P2" -> "Infantry"
      [] u = "P3" -> "Armor"
      [] u = "R1" -> "Mechanized"
      [] u = "R2" -> "Artillery"

\* Unit._calculate_combat_values: default (attack, defense) by unit type
DefaultCombatValues(t) ==
    CASE t = "Armor" -> <<15, 12>>
      [] t = "Mechanized" -> <<10, 10>>
      [] t = "Infantry" -> <<8, 12>>
      [] t = "Artillery" -> <<4, 4>>
      [] t = "Engineer" -> <<4, 6>>
      [] t = "AttackHelo" -> <<12, 2>>
      [] OTHER -> <<8, 8>>

base_attack(u) == DefaultCombatValues(unit_type(u))[1]
base_defense(u) == DefaultCombatValues(unit_type(u))[2]

\* Unit._set_movement_points
movement_points(u) ==
    CASE unit_type(u) = "Armor" -> 6
      [] unit_type(u) = "Mechanized" -> 8
      [] unit_type(u) = "Infantry" -> 4
      [] unit_type(u) = "Artillery" -> 4
      [] unit_type(u) = "Engineer" -> 4
      [] unit_type(u) = "AttackHelo" -> 12
      [] OTHER -> 4

lift_cost(u) ==
    CASE u = "P1" -> 80
      [] u = "P2" -> 40
      [] u = "P3" -> 80
      [] OTHER -> 0

(***************************************************************************)
(* State                                                                   *)
(***************************************************************************)
VARIABLES
    pc,                 \* position in run_simulation
    turn_number,
    current_phase,
    game_over,
    winner,
    raised,             \* the exception that ended the run, or "None"
    is_roc_interdicted,
    pla_amphibious_lift_capacity,   \* in units of 1/LiftScale
    hexes,              \* hex id -> [owner, units]; units is the occupant list
    unit_objs,          \* live Unit objects: id -> the fields that change
    units,              \* keys of the self.units dict, in insertion order
    pla_reinforcement_pool,
    pending_combats,
    phase_log,          \* phases entered so far in this turn
    declared_log,       \* attack declarations made in this turn
    resolved_log,       \* declarations handed to resolve_combat in this turn
    call_args,          \* arguments of the single call a call specification makes
    call_result         \* what that call returned, <<>> before it

vars == <<pc, turn_number, current_phase, game_over, winner, raised,
          is_roc_interdicted, pla_amphibious_lift_capacity, hexes, unit_objs,
          units, pla_reinforcement_pool, pending_combats, phase_log,
          declared_log, resolved_log, call_args, call_result>>

(***************************************************************************)
(* Sequence helpers                                                        *)
(***************************************************************************)
Range(s) == {s[i] : i \in 1..Len(s)}

InSeq(x, s) == \E i \in 1..Len(s) : s[i] = x

\* list.remove(x): drops the first occurrence
RECURSIVE RemoveFirst(_, _)
RemoveFirst(s, x) ==
    IF s = <<>> THEN <<>>
    ELSE IF Head(s) = x THEN Tail(s)
    ELSE <<Head(s)>> \o RemoveFirst(Tail(s), x)

\* every list over S of length at most n
SeqUpTo(S, n) == UNION {[1..k -> S] : k \in 0..n}

(***************************************************************************)
(* Spatial model (setup_hex_grid, get_neighbors, get_hex_distance)         *)
(***************************************************************************)
\* ord(col_char) - ord('A')
ColIndex(c) ==
    CASE c = "A" -> 0 [] c = "B" -> 1 [] c = "C" -> 2 [] c = "D" -> 3
      [] c = "E" -> 4 [] c = "F" -> 5 [] c = "G" -> 6 [] c = "H" -> 7
      [] c = "I" -> 8 [] c = "J" -> 9

\* "odd-q" conversion: q = column index, r = row - (q - (q & 1)) // 2
hex_coords(h) ==
    LET q == ColIndex(h[1])
    IN  <<q, h[2] - ((q - (q % 2)) \div 2)>>

\* coords_to_hex over the hexes ids: the hex at axial coordinates c, or NoHex
CoordsToHexIn(ids, c) ==
    IF \E h \in ids : hex_coords(h) = c
    THEN CHOOSE h \in ids : hex_coords(h) = c
    ELSE NoHex

\* coords_to_hex: the hex at axial coordinates c, or NoHex
coords_to_hex(c) == CoordsToHexIn(HexIds, c)

axial_directions == << <<1, 0>>, <<1, -1>>, <<0, -1>>, <<-1, 0>>, <<-1, 1>>, <<0, 1>> >>

\* hex_neighbors[hex_id]: the existing neighbours, in direction order
HexNeighborsIn(ids, h) ==
    LET c == hex_coords(h)
        cand == [i \in 1..Len(axial_directions) |->
                    CoordsToHexIn(ids, <<c[1] + axial_directions[i][1],
                                         c[2] + axial_directions[i][2]>>)]
    IN  SelectSeq(cand, LAMBDA x : x # NoHex)

\* the neighbour lists are built over the keys of self.hexes
hex_neighbors(h) == HexNeighborsIn(DOMAIN hexes, h)

\* get_neighbors: [] for an id that is not a hex of the map
get_neighbors(h) == IF h \in DOMAIN hexes THEN hex_neighbors(h) ELSE <<>>

Abs(x) == IF x < 0 THEN -x ELSE x

\* the value standing for float('inf')
Infinity == "inf"

\* a distance that adds the column and row differences only
HexDistanceIn_TwoAxes(ids, h1, h2) ==
    IF h1 \notin ids \/ h2 \notin ids THEN Infinity
    ELSE LET a == hex_coords(h1)
             b == hex_coords(h2)
         IN  Abs(a[1] - b[1]) + Abs(a[2] - b[2])

\* get_hex_distance over the hexes ids (the keys of hex_coords)
HexDistanceIn(ids, h1, h2) ==
    IF h1 \notin ids \/ h2 \notin ids THEN Infinity
    ELSE LET a == hex_coords(h1)
             b == hex_coords(h2)
         IN  (Abs(a[1] - b[1]) + Abs(a[1] + a[2] - b[1] - b[2]) + Abs(a[2] - b[2])) \div 2

get_hex_distance(h1, h2) == HexDistanceIn(HexIds, h1, h2)

(***************************************************************************)
(* Unit (models.py)                                                        *)
(***************************************************************************)
\* Unit.__init__: the fields that change during a run
NewUnit(u, loc, strength) ==
    [location_hex_id |-> loc, strength |-> strength,
     movement_points |-> movement_points(u), supply_status |-> In_Supply,
     turns_out_of_supply |-> 0, has_moved |-> FALSE, has_attacked |-> FALSE,
     is_fortified |-> FALSE, is_supporting_arty |-> FALSE]

\* round(): nearest integer of n / d, a tie going to the even integer
RoundHalfEven(n, d) ==
    LET f == n \div d
        r == n % d
    IN  IF 2 * r > d \/ (2 * r = d /\ f % 2 = 1) THEN f + 1 ELSE f

\* <<strength, percentage, damage>> where the double product
\* strength * (percentage / 100) lands on the other side of the tie
FloatDamage ==
    { <<75, 14, 11>>, <<90, 35, 31>>, <<45, 70, 31>>, <<85, 70, 59>>,
      <<75, 82, 61>>, <<50, 109, 55>>, <<55, 110, 61>>, <<95, 110, 105>>,
      <<75, 114, 85>>, <<50, 115, 57>>, <<90, 115, 103>>, <<75, 138, 103>> }

\* a damage that drops the fraction instead of rounding
Damage_Truncated(strength, percentage) == (strength * percentage) \div 100

\* int(round(self.strength * (percentage / 100)))
Damage(strength, percentage) ==
    IF \E t \in FloatDamage : t[1] = strength /\ t[2] = percentage
    THEN (CHOOSE t \in FloatDamage : t[1] = strength /\ t[2] = percentage)[3]
    ELSE RoundHalfEven(strength * percentage, 100)

\* a take_damage that adds the damage to the strength
take_damage_Gain(strength, percentage) == strength + Damage(strength, percentage)

\* a take_damage that forgets the floor at 0
take_damage_NoFloor(strength, percentage) == strength - Damage(strength, percentage)

\* Unit.take_damage: the new strength
take_damage(strength, percentage) ==
    LET s == strength - Damage(strength, percentage)
    IN  IF s < 0 THEN 0 ELSE s

\* Unit.get_current_attack / get_current_defense, in hundredths
get_current_attack(u) == base_attack(u) * unit_objs[u].strength
get_current_defense(u) == base_defense(u) * unit_objs[u].strength

(***************************************************************************)
(* Zone of control (is_in_enemy_zoc)                                       *)
(***************************************************************************)
ZocTypes == {"Armor", "Mechanized", "Infantry"}

\* is_in_enemy_zoc read against the hex table hx and the unit objects uo
ZocIn(hx, uo, hex_id, friendly_faction) ==
    LET enemy_faction == IF friendly_faction = PLA THEN ROC ELSE PLA
        nbrs == get_neighbors(hex_id)
    IN  \E i \in 1..Len(nbrs) :
            \E j \in 1..Len(hx[nbrs[i]].units) :
                LET u == hx[nbrs[i]].units[j]
                IN  /\ faction(u) = enemy_faction
                    /\ uo[u].strength > 0
                    /\ unit_type(u) \in ZocTypes

is_in_enemy_zoc(hex_id, friendly_faction) ==
    ZocIn(hexes, unit_objs, hex_id, friendly_faction)

(***************************************************************************)
(* Action records and legal-action generation (get_possible_actions)       *)
(***************************************************************************)
MoveAction(u, path) ==
    [action |-> MOVE, unit_id |-> u, path |-> path,
     attacking_units |-> <<>>, target_hex |-> NoHex]
AttackAction(us, target) ==
    [action |-> ATTACK, unit_id |-> NoUnit, path |-> <<>>,
     attacking_units |-> us, target_hex |-> target]
FortifyAction(u) ==
    [action |-> FORTIFY, unit_id |-> u, path |-> <<>>,
     attacking_units |-> <<>>, target_hex |-> NoHex]
ArtilleryAction(u, target) ==
    [action |-> ARTILLERY_SUPPORT, unit_id |-> u, path |-> <<>>,
     attacking_units |-> <<>>, target_hex |-> target]
PassAction ==
    [action |-> PASS, unit_id |-> NoUnit, path |-> <<>>,
     attacking_units |-> <<>>, target_hex |-> NoHex]

\* any(u.faction != faction for u in hex.units)
HasEnemyUnit(h, f) ==
    \E j \in 1..Len(hexes[h].units) : faction(hexes[h].units[j]) # f

\* an exploration that enters every unvisited neighbour, whatever is left
RECURSIVE ExploreNeighbors_FreeSteps(_, _, _, _, _)
ExploreNeighbors_FreeSteps(nbrs, path, remaining_mp, q, visited_paths) ==
    IF nbrs = <<>> THEN <<q, visited_paths>>
    ELSE LET neighbor == Head(nbrs)
         IN  IF neighbor \notin visited_paths
             THEN ExploreNeighbors_FreeSteps(Tail(nbrs), path, remaining_mp,
                      Append(q, [hex |-> neighbor, path |-> Append(path, neighbor),
                                 mp |-> remaining_mp]),
                      visited_paths \cup {neighbor})
             ELSE ExploreNeighbors_FreeSteps(Tail(nbrs), path, remaining_mp, q,
                                             visited_paths)

\* the "for neighbor in get_neighbors(current_hex)" loop of the movement
\* search: returns <<queue, visited_paths>>
RECURSIVE ExploreNeighbors(_, _, _, _, _)
ExploreNeighbors(nbrs, path, remaining_mp, q, visited_paths) ==
    IF nbrs = <<>> THEN <<q, visited_paths>>
    ELSE LET neighbor == Head(nbrs)
             move_cost == MovementCostHalves(terrain_type(neighbor))
         IN  IF neighbor \notin visited_paths /\ remaining_mp >= move_cost
             THEN ExploreNeighbors(Tail(nbrs), path, remaining_mp,
                      Append(q, [hex |-> neighbor, path |-> Append(path, neighbor),
                                 mp |-> remaining_mp - move_cost]),
                      visited_paths \cup {neighbor})
             ELSE ExploreNeighbors(Tail(nbrs), path, remaining_mp, q, visited_paths)

\* the "while q" loop of the movement search for one unit: the MOVE actions
RECURSIVE MoveSearch(_, _, _, _, _)
MoveSearch(u, f, q, visited_paths, actions) ==
    IF q = <<>> THEN actions
    ELSE LET cur == Head(q)
             acts == IF cur.path[Len(cur.path)] # unit_objs[u].location_hex_id
                     THEN Append(actions, MoveAction(u, cur.path))
                     ELSE actions
         IN  IF Len(cur.path) > 1 /\ is_in_enemy_zoc(cur.hex, f)
             THEN MoveSearch(u, f, Tail(q), visited_paths, acts)
             ELSE LET ex == ExploreNeighbors(get_neighbors(cur.hex), cur.path,
                                             cur.mp, Tail(q), visited_paths)
                  IN  MoveSearch(u, f, ex[1], ex[2], acts)

\* a movement search that offers every neighbour, whatever the step costs
MoveActionsOf_AnyNeighbour(u, f) ==
    LET loc == unit_objs[u].location_hex_id
        nbrs == get_neighbors(loc)
    IN  [i \in 1..Len(nbrs) |-> MoveAction(u, <<loc, nbrs[i]>>)]

MoveActionsOf(u, f) ==
    LET loc == unit_objs[u].location_hex_id
    IN  MoveSearch(u, f, << [hex |-> loc, path |-> <<loc>>,
                            mp |-> 2 * unit_objs[u].movement_points] >>, {loc}, <<>>)

\* an attack loop that does not look at declared_attack_targets
RECURSIVE AttackSearch_NoDedupe(_, _, _, _, _)
AttackSearch_NoDedupe(u, f, nbrs, actions, declared) ==
    IF nbrs = <<>> THEN <<actions, declared>>
    ELSE LET neighbor_id == Head(nbrs)
             loc == unit_objs[u].location_hex_id
             attacking_units ==
                 SelectSeq(hexes[loc].units,
                           LAMBDA x : faction(x) = f /\ ~unit_objs[x].has_attacked)
         IN  IF HasEnemyUnit(neighbor_id, f) /\ attacking_units # <<>>
             THEN AttackSearch_NoDedupe(u, f, Tail(nbrs),
                      Append(actions, AttackAction(attacking_units, neighbor_id)),
                      declared \cup {neighbor_id})
             ELSE AttackSearch_NoDedupe(u, f, Tail(nbrs), actions, declared)

\* the attack loop for one unit: returns <<actions, declared_attack_targets>>
RECURSIVE AttackSearch(_, _, _, _, _)
AttackSearch(u, f, nbrs, actions, declared) ==
    IF nbrs = <<>> THEN <<actions, declared>>
    ELSE LET neighbor_id == Head(nbrs)
             loc == unit_objs[u].location_hex_id
             attacking_units ==
                 SelectSeq(hexes[loc].units,
                           LAMBDA x : faction(x) = f /\ ~unit_objs[x].has_attacked)
         IN  IF /\ neighbor_id \notin declared
                /\ HasEnemyUnit(neighbor_id, f)
                /\ attacking_units # <<>>
             THEN AttackSearch(u, f, Tail(nbrs),
                      Append(actions, AttackAction(attacking_units, neighbor_id)),
                      declared \cup {neighbor_id})
             ELSE AttackSearch(u, f, Tail(nbrs), actions, declared)

\* the artillery-support loop for one unit
ArtilleryActionsOf(u, f) ==
    LET loc == unit_objs[u].location_hex_id
        targets == SelectSeq(HexOrder,
                       LAMBDA h : /\ HasEnemyUnit(h, f)
                                  /\ get_hex_distance(loc, h) <= ARTILLERY_RANGE)
    IN  [i \in 1..Len(targets) |-> ArtilleryAction(u, targets[i])]

\* the "for unit in my_units" loop: returns the action list before PASS
RECURSIVE UnitActions(_, _, _, _)
UnitActions(my_units, f, actions, declared) ==
    IF my_units = <<>> THEN actions
    ELSE LET u == Head(my_units)
             loc == unit_objs[u].location_hex_id
         IN  IF loc = NoHex
             THEN UnitActions(Tail(my_units), f, actions, declared)
             ELSE LET moves == MoveActionsOf(u, f)
                      att == IF unit_type(u) \notin {"Artillery", "Engineer"}
                             THEN AttackSearch(u, f, get_neighbors(loc), <<>>, declared)
                             ELSE << <<>>, declared >>
                      arty == IF unit_type(u) = "Artillery"
                              THEN ArtilleryActionsOf(u, f)
                              ELSE <<>>
                  IN  UnitActions(Tail(my_units), f,
                          actions \o moves \o att[1] \o arty \o <<FortifyAction(u)>>,
                          att[2])

\* an action list that ends without the PASS record
get_possible_actions_NoPass(f) ==
    LET my_units == SelectSeq(units,
                        LAMBDA u : /\ faction(u) = f
                                   /\ unit_objs[u].strength > 0
                                   /\ ~unit_objs[u].has_moved
                                   /\ ~unit_objs[u].has_attacked)
    IN  UnitActions(my_units, f, <<>>, {})

get_possible_actions(f) ==
    LET my_units == SelectSeq(units,
                        LAMBDA u : /\ faction(u) = f
                                   /\ unit_objs[u].strength > 0
                                   /\ ~unit_objs[u].has_moved
                                   /\ ~unit_objs[u].has_attacked)
    IN  Append(UnitActions(my_units, f, <<>>, {}), PassAction)

(***************************************************************************)
(* Action execution.  e is the engine state the call finds,                *)
(* [hexes, unit_objs, pending_combats]; each operator yields the state     *)
(* the call leaves.                                                        *)
(***************************************************************************)
Engine == [hexes |-> hexes, unit_objs |-> unit_objs, pending_combats |-> pending_combats]

\* self.units.get(unit_id) found a unit
InUnits(u) == InSeq(u, units)

\* a guard that only asks whether the unit is in the table
Ignored_MissingOnly(e, u) == ~InUnits(u)

\* "if not unit or unit.has_moved or unit.has_attacked: return"
Ignored(e, u) == ~InUnits(u) \/ e.unit_objs[u].has_moved \/ e.unit_objs[u].has_attacked

\* a move that also hands the end hex to the mover's faction
execute_move_TakeHex(e, a) ==
    IF Ignored(e, a.unit_id) THEN e
    ELSE LET u == a.unit_id
             start_hex_id == a.path[1]
             end_hex_id == a.path[Len(a.path)]
         IN  IF InSeq(u, e.hexes[start_hex_id].units)
             THEN LET removed == [e.hexes EXCEPT ![start_hex_id].units = RemoveFirst(@, u)]
                  IN  [e EXCEPT
                         !.hexes = [removed EXCEPT ![end_hex_id].units = Append(@, u),
                                                   ![end_hex_id].owner = faction(u)],
                         !.unit_objs = [e.unit_objs EXCEPT
                                           ![u].location_hex_id = end_hex_id,
                                           ![u].has_moved = TRUE]]
             ELSE e

\* a move that relinks the occupant lists but forgets unit.location_hex_id
execute_move_KeepLocation(e, a) ==
    IF Ignored(e, a.unit_id) THEN e
    ELSE LET u == a.unit_id
             start_hex_id == a.path[1]
             end_hex_id == a.path[Len(a.path)]
         IN  IF InSeq(u, e.hexes[start_hex_id].units)
             THEN LET removed == [e.hexes EXCEPT ![start_hex_id].units = RemoveFirst(@, u)]
                  IN  [e EXCEPT
                         !.hexes = [removed EXCEPT ![end_hex_id].units = Append(@, u)],
                         !.unit_objs = [e.unit_objs EXCEPT ![u].has_moved = TRUE]]
             ELSE e

execute_move(e, a) ==
    IF Ignored(e, a.unit_id) THEN e
    ELSE LET u == a.unit_id
             start_hex_id == a.path[1]
             end_hex_id == a.path[Len(a.path)]
         IN  IF InSeq(u, e.hexes[start_hex_id].units)
             THEN LET removed == [e.hexes EXCEPT ![start_hex_id].units = RemoveFirst(@, u)]
                  IN  [e EXCEPT
                         !.hexes = [removed EXCEPT ![end_hex_id].units = Append(@, u)],
                         !.unit_objs = [e.unit_objs EXCEPT
                                           ![u].location_hex_id = end_hex_id,
                                           ![u].has_moved = TRUE]]
             ELSE e

execute_fortify(e, a) ==
    IF Ignored(e, a.unit_id) THEN e
    ELSE [e EXCEPT
            !.unit_objs = [e.unit_objs EXCEPT ![a.unit_id].is_fortified = TRUE,
                                              ![a.unit_id].has_moved = TRUE,
                                              ![a.unit_id].has_attacked = TRUE]]

declare_attack(e, a) ==
    [e EXCEPT
        !.pending_combats = Append(e.pending_combats, a),
        !.unit_objs = [u \in DOMAIN e.unit_objs |->
                          IF InSeq(u, a.attacking_units) /\ InUnits(u)
                          THEN [e.unit_objs[u] EXCEPT !.has_attacked = TRUE,
                                                      !.has_moved = TRUE]
                          ELSE e.unit_objs[u]]]

declare_artillery_support(e, a) ==
    IF Ignored(e, a.unit_id) THEN e
    ELSE [e EXCEPT
            !.unit_objs = [e.unit_objs EXCEPT ![a.unit_id].is_supporting_arty = TRUE,
                                              ![a.unit_id].has_moved = TRUE,
                                              ![a.unit_id].has_attacked = TRUE]]

\* the if / elif chain inside the "for action in chosen_actions" loop
ExecuteAction(e, a) ==
    CASE a.action = MOVE -> execute_move(e, a)
      [] a.action = ATTACK -> declare_attack(e, a)
      [] a.action = FORTIFY -> execute_fortify(e, a)
      [] a.action = ARTILLERY_SUPPORT -> declare_artillery_support(e, a)
      [] OTHER -> e

\* the "for action in chosen_actions" loop
RECURSIVE ExecuteAll(_, _)
ExecuteAll(e, actions) ==
    IF actions = <<>> THEN e
    ELSE ExecuteAll(ExecuteAction(e, Head(actions)), Tail(actions))

(***************************************************************************)
(* Combat results table (data_loader.py) and its cell grammar              *)
(* (apply_combat_result).  A cell is the list of its characters.           *)
(***************************************************************************)
\* rows 1-5, 6-10, 11-15, 16-19, 20; columns 1:2, 1:1, 2:1, 3:1, 4:1+
combat_results_table ==
    << << <<"A","-","3","0","/","D","-","0">>,
          <<"A","-","2","0","/","D","-","1","0">>,
          <<"A","-","1","0","/","D","-","2","0">>,
          <<"A","-","1","0","/","D","-","3","0">>,
          <<"A","-","0","/","D","-","3","0">> >>,
       << <<"A","-","2","0","/","D","-","0">>,
          <<"A","-","1","0","/","D","-","1","0">>,
          <<"A","-","1","0","/","D","-","2","0","_","D","R">>,
          <<"A","-","1","0","/","D","-","2","0","_","D","R">>,
          <<"A","-","0","/","D","-","2","0","_","D","R">> >>,
       << <<"A","-","1","0","/","D","-","0">>,
          <<"A","-","1","0","/","D","-","1","0","_","D","R">>,
          <<"A","-","0","/","D","-","3","0","_","D","R">>,
          <<"A","-","0","/","D","-","4","0","_","D","R">>,
          <<"A","-","0","/","D","-","5","0","_","D","R">> >>,
       << <<"A","-","1","0","/","D","-","0","_","A","R">>,
          <<"A","-","0","/","D","-","2","0","_","D","R">>,
          <<"A","-","0","/","D","-","4","0","_","D","R">>,
          <<"A","-","0","/","D","-","5","0","_","D","R">>,
          <<"A","-","0","/","D","-","6","0","_","D","R">> >>,
       << <<"A","-","0","/","D","-","0","_","A","X">>,
          <<"A","-","0","/","D","-","3","0","_","D","X">>,
          <<"A","-","0","/","D","-","5","0","_","D","X">>,
          <<"A","-","0","/","D","-","6","0","_","D","X">>,
          <<"A","-","0","/","D","-","7","0","_","D","X">> >> >>

Digits == {"0", "1", "2", "3", "4", "5", "6", "7", "8", "9"}
Letters == {"A", "B", "C", "D", "E", "F", "G", "H", "I", "J", "K", "L", "M",
            "N", "O", "P", "Q", "R", "S", "T", "U", "V", "W", "X", "Y", "Z"}
\* \w of the characters a cell is written with
WordChars == Digits \cup Letters \cup {"_"}

DigitValue(c) ==
    CASE c = "0" -> 0 [] c = "1" -> 1 [] c = "2" -> 2 [] c = "3" -> 3 [] c = "4" -> 4
      [] c = "5" -> 5 [] c = "6" -> 6 [] c = "7" -> 7 [] c = "8" -> 8 [] c = "9" -> 9

\* the end (exclusive) of the longest run of characters of S starting at i
RECURSIVE RunEnd(_, _, _)
RunEnd(s, i, S) == IF i <= Len(s) /\ s[i] \in S THEN RunEnd(s, i + 1, S) ELSE i

\* int() of the digit characters s[i..j-1]
RECURSIVE IntOf(_, _, _, _)
IntOf(s, i, j, acc) == IF i >= j THEN acc ELSE IntOf(s, i + 1, j, 10 * acc + DigitValue(s[i]))

\* s[i..] starts with the characters lit
StartsWith(s, i, lit) ==
    /\ i + Len(lit) - 1 <= Len(s)
    /\ \A k \in 1..Len(lit) : s[i + k - 1] = lit[k]

\* a parse that reads the two losses as 0 and finds no tag
ParseResult_LossesOnly(result) ==
    [ok |-> TRUE, attacker_loss |-> 0, defender_loss |-> 0, special |-> <<>>]

NoMatch == [ok |-> FALSE, attacker_loss |-> 0, defender_loss |-> 0, special |-> <<>>]

\* re.match(r'A-(\d+)/D-(\d+)(?:_(\w+))?', result) and the three groups;
\* special is <<>> where group 3 is None
ParseResult(result) ==
    IF ~StartsWith(result, 1, <<"A", "-">>) THEN NoMatch
    ELSE LET a1 == RunEnd(result, 3, Digits)
         IN  IF a1 = 3 \/ ~StartsWith(result, a1, <<"/", "D", "-">>) THEN NoMatch
             ELSE LET d0 == a1 + 3
                      d1 == RunEnd(result, d0, Digits)
                  IN  IF d1 = d0 THEN NoMatch
                      ELSE LET w1 == IF StartsWith(result, d1, <<"_">>)
                                     THEN RunEnd(result, d1 + 1, WordChars)
                                     ELSE d1
                           IN  [ok |-> TRUE,
                                attacker_loss |-> IntOf(result, 3, a1, 0),
                                defender_loss |-> IntOf(result, d0, d1, 0),
                                special |-> IF w1 > d1 + 1
                                            THEN SubSeq(result, d1 + 1, w1 - 1)
                                            ELSE <<>>]

(***************************************************************************)
(* Combat resolution (resolve_combat, apply_combat_result, retreat_units). *)
(* Powers are exact counts of 1/PowerDen; the operators                     *)
(* yield the set of states [hexes, unit_objs] the random draws allow.      *)
(***************************************************************************)
\* self.pla_cas_available: set True in __init__, never assigned again
pla_cas_available == TRUE

RECURSIVE SumAttack(_, _)
SumAttack(us, uo) ==
    IF us = <<>> THEN 0 ELSE base_attack(Head(us)) * uo[Head(us)].strength + SumAttack(Tail(us), uo)

RECURSIVE SumDefense(_, _)
SumDefense(us, uo) ==
    IF us = <<>> THEN 0 ELSE base_defense(Head(us)) * uo[Head(us)].strength + SumDefense(Tail(us), uo)

\* every power is a count of 1/PowerDen: hundredths of strength times three
\* factors in tenths
PowerDen == 100 * 10 * 10 * 10

\* total_attack_power after the CAS bonus and the supply penalty, in 1/PowerDen
AttackPower(attackers, uo) ==
    LET cas == faction(attackers[1]) = PLA /\ pla_cas_available
        oos == \E i \in 1..Len(attackers) : uo[attackers[i]].supply_status = Out_Of_Supply
    IN  SumAttack(attackers, uo) * 10 * (IF cas THEN 12 ELSE 10) * (IF oos THEN 5 ELSE 10)

\* total_defense_power after terrain, fortification and the supply penalty,
\* in 1/PowerDen
DefensePower(defenders, target, uo) ==
    LET fort == \E i \in 1..Len(defenders) : uo[defenders[i]].is_fortified
        oos == \E i \in 1..Len(defenders) : uo[defenders[i]].supply_status = Out_Of_Supply
    IN  SumDefense(defenders, uo) * DefenseMultiplierTenths(terrain_type(target))
            * (IF fort THEN 15 ELSE 10) * (IF oos THEN 5 ELSE 10)

\* the operands of the odds computation: the attackers with their strengths
\* in summing order, whether an attacker is Out_Of_Supply, the defenders with
\* their strengths, the terrain multiplier in tenths, whether a defender is
\* fortified, whether a defender is Out_Of_Supply
OddsKey(attackers, defenders, target, uo) ==
    << [i \in 1..Len(attackers) |-> <<attackers[i], uo[attackers[i]].strength>>],
       \E i \in 1..Len(attackers) : uo[attackers[i]].supply_status = Out_Of_Supply,
       [i \in 1..Len(defenders) |-> <<defenders[i], uo[defenders[i]].strength>>],
       DefenseMultiplierTenths(terrain_type(target)),
       \E i \in 1..Len(defenders) : uo[defenders[i]].is_fortified,
       \E i \in 1..Len(defenders) : uo[defenders[i]].supply_status = Out_Of_Supply >>

\* The powers are doubles: strength / 100, the products with 1.2, 1.5 and 0.5
\* and the quotient are each rounded.  FloatOddsLow lists the combats whose
\* exact odds stand on a column boundary while the double
\* total_attack_power / total_defense_power comes out just below it.
FloatOddsLow ==
    { << << <<"R1", 72>> >>, TRUE, << <<"P2", 80>> >>, 10, FALSE, TRUE >>,
      << << <<"P2", 100>> >>, FALSE, << <<"R1", 100>>, <<"R2", 70>> >>, 10, FALSE, FALSE >>,
      << << <<"P2", 100>> >>, FALSE, << <<"R1", 100>>, <<"R2", 70>> >>, 10, FALSE, TRUE >>,
      << << <<"P2", 100>> >>, FALSE, << <<"R1", 100>>, <<"R2", 70>> >>, 20, FALSE, TRUE >>,
      << << <<"P2", 100>> >>, TRUE, << <<"R1", 100>>, <<"R2", 70>> >>, 10, FALSE, TRUE >>,
      << << <<"P1", 0>>, <<"P2", 100>> >>, FALSE, << <<"R1", 100>>, <<"R2", 70>> >>, 10, FALSE, FALSE >>,
      << << <<"P1", 0>>, <<"P2", 100>> >>, FALSE, << <<"R1", 100>>, <<"R2", 70>> >>, 10, FALSE, TRUE >>,
      << << <<"P1", 0>>, <<"P2", 100>> >>, FALSE, << <<"R1", 100>>, <<"R2", 70>> >>, 20, FALSE, TRUE >>,
      << << <<"P1", 0>>, <<"P2", 100>> >>, TRUE, << <<"R1", 100>>, <<"R2", 70>> >>, 10, FALSE, TRUE >> }

\* odds_ratio as <<numerator, denominator, low>>: the exact quotient, and
\* whether the double lies below it on a column boundary
OddsRatio(attackers, defenders, target, uo) ==
    LET a == AttackPower(attackers, uo)
        d == DefensePower(defenders, target, uo)
    IN  IF d > 0
        THEN << a, d, OddsKey(attackers, defenders, target, uo) \in FloatOddsLow >>
        ELSE << FALLBACK_ODDS, 1, FALSE >>

\* odds_ratio < n / m
OddsBelow(odds, n, m) ==
    \/ m * odds[1] < n * odds[2]
    \/ odds[3] /\ m * odds[1] = n * odds[2]

\* crt_column: 1 = '1:2', 2 = '1:1', 3 = '2:1', 4 = '3:1', 5 = '4:1+'
CrtColumn(odds) ==
    IF OddsBelow(odds, 3, 4) THEN 1
    ELSE IF OddsBelow(odds, 3, 2) THEN 2
    ELSE IF OddsBelow(odds, 5, 2) THEN 3
    ELSE IF OddsBelow(odds, 7, 2) THEN 4
    ELSE 5

\* the row band of a d20 roll: 1 = '1-5', ..., 5 = '20'
CrtRow(d20_roll) ==
    IF d20_roll <= 5 THEN 1
    ELSE IF d20_roll <= 10 THEN 2
    ELSE IF d20_roll <= 15 THEN 3
    ELSE IF d20_roll <= 19 THEN 4
    ELSE 5

\* "for unit in us: unit.take_damage(percentage)"
DamageAll(uo, us, percentage) ==
    [u \in DOMAIN uo |->
        IF InSeq(u, us) THEN [uo[u] EXCEPT !.strength = take_damage(@, percentage)]
        ELSE uo[u]]

\* an elimination that leaves the strengths as the percentage loss left them
EliminateAll_Skipped(uo, us) == uo

\* "for unit in us: unit.strength = 0"
EliminateAll(uo, us) ==
    [u \in DOMAIN uo |-> IF InSeq(u, us) THEN [uo[u] EXCEPT !.strength = 0] ELSE uo[u]]

\* the retreat loop: every unit leaves from_hex for retreat_hex
RECURSIVE MoveAll(_, _, _, _, _)
MoveAll(us, from_hex, retreat_hex, hx, uo) ==
    IF us = <<>> THEN [hexes |-> hx, unit_objs |-> uo]
    ELSE LET u == Head(us)
             removed == [hx EXCEPT ![from_hex].units = RemoveFirst(@, u)]
         IN  MoveAll(Tail(us), from_hex, retreat_hex,
                     [removed EXCEPT ![retreat_hex].units = Append(@, u)],
                     [uo EXCEPT ![u].location_hex_id = retreat_hex])

\* a retreat that takes the first neighbour, whoever holds or controls it
retreat_units_AnyNeighbour(us, from_hex, f, hx, uo) ==
    {MoveAll(us, from_hex, get_neighbors(from_hex)[1], hx, uo)}

retreat_units(us, from_hex, f, hx, uo) ==
    LET valid_retreats ==
            SelectSeq(get_neighbors(from_hex),
                LAMBDA n : /\ ~\E j \in 1..Len(hx[n].units) : faction(hx[n].units[j]) # f
                           /\ ~ZocIn(hx, uo, n, f))
    IN  IF valid_retreats # <<>>
        THEN {MoveAll(us, from_hex, valid_retreats[i], hx, uo) : i \in 1..Len(valid_retreats)}
        ELSE {[hexes |-> hx, unit_objs |-> DamageAll(uo, us, NO_RETREAT_DAMAGE)]}

\* "Check for hex capture" at the end of apply_combat_result
CheckCapture(e, attackers, defenders, units_to_retreat, target) ==
    LET surviving_defenders ==
            SelectSeq(defenders,
                LAMBDA d : e.unit_objs[d].strength > 0 /\ ~InSeq(d, units_to_retreat))
    IN  IF surviving_defenders = <<>> /\ e.hexes[target].owner # faction(attackers[1])
        THEN [e EXCEPT !.hexes[target].owner = faction(attackers[1])]
        ELSE e

\* a result that costs the attackers a tenth whatever the string says
apply_combat_result_AlwaysLoss(result, attackers, defenders, target, hx, uo) ==
    {[hexes |-> hx, unit_objs |-> DamageAll(uo, attackers, 10)]}

apply_combat_result(result, attackers, defenders, target, hx, uo) ==
    LET m == ParseResult(result)
    IN  IF ~m.ok THEN {[hexes |-> hx, unit_objs |-> uo]}
        ELSE LET uo1 == IF m.attacker_loss > 0
                        THEN DamageAll(uo, attackers, m.attacker_loss) ELSE uo
                 uo2 == IF m.defender_loss > 0
                        THEN DamageAll(uo1, defenders, m.defender_loss) ELSE uo1
                 units_to_retreat ==
                     IF m.special = <<"D", "R">>
                     THEN SelectSeq(defenders, LAMBDA d : uo2[d].strength > 0)
                     ELSE <<>>
                 after ==
                     CASE m.special = <<"D", "R">> ->
                            retreat_units(units_to_retreat, target,
                                          faction(defenders[1]), hx, uo2)
                       [] m.special = <<"D", "X">> ->
                            {[hexes |-> hx, unit_objs |-> EliminateAll(uo2, defenders)]}
                       [] m.special = <<"A", "X">> ->
                            {[hexes |-> hx, unit_objs |-> EliminateAll(uo2, attackers)]}
                       [] OTHER -> {[hexes |-> hx, unit_objs |-> uo2]}
             IN  {CheckCapture(e, attackers, defenders, units_to_retreat, target) : e \in after}

\* a resolution that leaves the state as it found it
resolve_combat_NoCapture(e, combat_declaration, d20_roll) == {e}

\* resolve_combat for one declaration and one d20 roll, from the state e
\* [hexes, unit_objs]: the states the retreat draw allows
resolve_combat(e, combat_declaration, d20_roll) ==
    LET attackers == SelectSeq(combat_declaration.attacking_units, InUnits)
        target == combat_declaration.target_hex
    IN  IF attackers = <<>> THEN {e}
        ELSE LET defenders == SelectSeq(e.hexes[target].units,
                                  LAMBDA u : faction(u) # faction(attackers[1]))
             IN  IF defenders = <<>>
                 THEN {[e EXCEPT !.hexes[target].owner = faction(attackers[1])]}
                 ELSE LET odds == OddsRatio(attackers, defenders, target, e.unit_objs)
                          result == combat_results_table[CrtRow(d20_roll)][CrtColumn(odds)]
                      IN  apply_combat_result(result, attackers, defenders, target,
                                              e.hexes, e.unit_objs)

\* resolve_combat for one declaration when the table lookup yields the cell
\* result: the table is part of the data_files the engine is constructed with
resolve_combat_with(e, combat_declaration, result) ==
    LET attackers == SelectSeq(combat_declaration.attacking_units, InUnits)
        target == combat_declaration.target_hex
    IN  IF attackers = <<>> THEN {e}
        ELSE LET defenders == SelectSeq(e.hexes[target].units,
                                  LAMBDA u : faction(u) # faction(attackers[1]))
             IN  IF defenders = <<>>
                 THEN {[e EXCEPT !.hexes[target].owner = faction(attackers[1])]}
                 ELSE apply_combat_result(result, attackers, defenders, target,
                                          e.hexes, e.unit_objs)

\* the "for combat in self.pending_combats" loop from position i when the
\* lookup of combat k yields cells[k]
RECURSIVE ResolveAllWith(_, _, _, _)
ResolveAllWith(S, combats, cells, i) ==
    IF i > Len(combats) THEN S
    ELSE ResolveAllWith(UNION {resolve_combat_with(e, combats[i], cells[i]) : e \in S},
                        combats, cells, i + 1)

\* the "for combat in self.pending_combats" loop from position i, over the set
\* S of states reached so far: the states it can end in, with d20 rolls drawn
\* by random.randint(1, D20_SIDES)
RECURSIVE ResolveAll(_, _, _)
ResolveAll(S, combats, i) ==
    IF i > Len(combats) THEN S
    ELSE ResolveAll(UNION {resolve_combat(e, combats[i], d20_roll) :
                              e \in S, d20_roll \in 1..D20_SIDES},
                    combats, i + 1)

(***************************************************************************)
(* Supply, reinforcement and end of turn                                   *)
(***************************************************************************)
\* is_unit_in_supply: "return False" for an unplaced unit, and the body ends
\* there, so a placed unit gets None; both are false in "if is_in_supply"
is_unit_in_supply(u) == FALSE

\* _is_supply_source: ports and airfields never leave the Operational status
\* they are created with
is_supply_source(hx, hex_id, f) ==
    IF f = ROC
    THEN hex_coords(hex_id)[1] >= ROC_SUPPLY_MIN_Q
    ELSE \/ hx[hex_id].owner = PLA /\ (is_port(hex_id) \/ is_airfield(hex_id))
         \/ /\ turn_number <= BEACHHEAD_LAST_TURN
            /\ terrain_type(hex_id) = "Coastal"
            /\ hx[hex_id].owner = PLA

\* the "while q" loop of the supply search: the hexes it visits from the
\* set visited within hops more steps, never expanding into a hex under
\* enemy zone of control
RECURSIVE SupplyVisited(_, _, _, _, _)
SupplyVisited(hx, uo, visited, f, hops) ==
    IF hops = 0 THEN visited
    ELSE LET next == {n \in HexIds :
                        /\ n \notin visited
                        /\ \E h \in visited : InSeq(n, get_neighbors(h))
                        /\ ~ZocIn(hx, uo, n, f)}
         IN  IF next = {} THEN visited
             ELSE SupplyVisited(hx, uo, visited \cup next, f, hops - 1)

\* the supply search (the body that stands after the victory check) run from
\* a unit's own hex: TRUE when it returns True
SupplySearch(hx, uo, u) ==
    \E h \in SupplyVisited(hx, uo, {uo[u].location_hex_id}, faction(u),
                            MAX_SUPPLY_DISTANCE) :
        is_supply_source(hx, h, faction(u))

\* the loop of run_supply_phase over self.units.values()
SupplyUpdate(uo) ==
    [u \in DOMAIN uo |->
        IF InUnits(u) /\ uo[u].location_hex_id # NoHex
        THEN IF is_unit_in_supply(u)
             THEN [uo[u] EXCEPT !.supply_status = In_Supply, !.turns_out_of_supply = 0]
             ELSE [uo[u] EXCEPT !.supply_status = Out_Of_Supply,
                                !.turns_out_of_supply = @ + 1]
        ELSE uo[u]]

\* a choice of landing zone that always takes the first zone
MinZone_First(landing_zones, hx) == landing_zones[1]

\* min(landing_zones, key=lambda h: len(h.units)): the first zone of least size
MinZone(landing_zones, hx) ==
    LET best == CHOOSE i \in 1..Len(landing_zones) :
                    /\ \A j \in 1..Len(landing_zones) :
                           Len(hx[landing_zones[i]].units) <= Len(hx[landing_zones[j]].units)
                    /\ \A j \in 1..(i - 1) :
                           Len(hx[landing_zones[j]].units) > Len(hx[landing_zones[i]].units)
    IN  landing_zones[best]

\* a landing loop that leaves the landed unit in the pool
RECURSIVE LandLoop_KeepPool(_, _, _, _)
LandLoop_KeepPool(pool_copy, lift_for_reinforce, landing_zones, e) ==
    IF pool_copy = <<>> THEN e
    ELSE LET u == Head(pool_copy)
         IN  IF lift_cost(u) * LiftScale <= lift_for_reinforce
             THEN LET landing_zone == MinZone(landing_zones, e.hexes)
                  IN  LandLoop_KeepPool(Tail(pool_copy),
                          lift_for_reinforce - lift_cost(u) * LiftScale,
                          landing_zones,
                          [hexes |-> [e.hexes EXCEPT ![landing_zone].units = Append(@, u)],
                           unit_objs |-> [e.unit_objs EXCEPT
                                             ![u].location_hex_id = landing_zone],
                           units |-> IF InSeq(u, e.units) THEN e.units
                                     ELSE Append(e.units, u),
                           pool |-> e.pool])
             ELSE LandLoop_KeepPool(Tail(pool_copy), lift_for_reinforce,
                                    landing_zones, e)

\* a landing loop that ends at the first unit that does not fit
RECURSIVE LandLoop_StopAtMiss(_, _, _, _)
LandLoop_StopAtMiss(pool_copy, lift_for_reinforce, landing_zones, e) ==
    IF pool_copy = <<>> THEN e
    ELSE LET u == Head(pool_copy)
         IN  IF lift_cost(u) * LiftScale <= lift_for_reinforce
             THEN LET landing_zone == MinZone(landing_zones, e.hexes)
                  IN  LandLoop_StopAtMiss(Tail(pool_copy),
                          lift_for_reinforce - lift_cost(u) * LiftScale,
                          landing_zones,
                          [hexes |-> [e.hexes EXCEPT ![landing_zone].units = Append(@, u)],
                           unit_objs |-> [e.unit_objs EXCEPT
                                             ![u].location_hex_id = landing_zone],
                           units |-> IF InSeq(u, e.units) THEN e.units
                                     ELSE Append(e.units, u),
                           pool |-> RemoveFirst(e.pool, u)])
             ELSE e

\* the "for unit_to_land in reinforcement_pool_copy" loop; lift is in 1/LiftScale
RECURSIVE LandLoop(_, _, _, _)
LandLoop(pool_copy, lift_for_reinforce, landing_zones, e) ==
    IF pool_copy = <<>> THEN e
    ELSE LET u == Head(pool_copy)
         IN  IF lift_cost(u) * LiftScale <= lift_for_reinforce
             THEN LET landing_zone == MinZone(landing_zones, e.hexes)
                  IN  LandLoop(Tail(pool_copy),
                          lift_for_reinforce - lift_cost(u) * LiftScale,
                          landing_zones,
                          [hexes |-> [e.hexes EXCEPT ![landing_zone].units = Append(@, u)],
                           unit_objs |-> [e.unit_objs EXCEPT
                                             ![u].location_hex_id = landing_zone],
                           units |-> IF InSeq(u, e.units) THEN e.units
                                     ELSE Append(e.units, u),
                           pool |-> RemoveFirst(e.pool, u)])
             ELSE LandLoop(Tail(pool_copy), lift_for_reinforce, landing_zones, e)

\* a purge that deletes from the unit table only and leaves the hex lists
RECURSIVE Purge_TableOnly(_, _)
Purge_TableOnly(destroyed_units, e) ==
    IF destroyed_units = <<>> THEN e
    ELSE LET uid == Head(destroyed_units)
         IN  Purge_TableOnly(Tail(destroyed_units),
                   [hexes |-> e.hexes,
                    unit_objs |-> [u \in DOMAIN e.unit_objs \ {uid} |-> e.unit_objs[u]],
                    units |-> RemoveFirst(e.units, uid)])

\* "Remove destroyed units": the engine state after the purge loop
RECURSIVE Purge(_, _)
Purge(destroyed_units, e) ==
    IF destroyed_units = <<>> THEN e
    ELSE LET uid == Head(destroyed_units)
             loc == e.unit_objs[uid].location_hex_id
             hx == IF loc # NoHex /\ InSeq(uid, e.hexes[loc].units)
                   THEN [e.hexes EXCEPT ![loc].units = RemoveFirst(@, uid)]
                   ELSE e.hexes
         IN  Purge(Tail(destroyed_units),
                   [hexes |-> hx,
                    unit_objs |-> [u \in DOMAIN e.unit_objs \ {uid} |-> e.unit_objs[u]],
                    units |-> RemoveFirst(e.units, uid)])

\* a victory check in which the capital decides before attrition is looked at
VictoryCheck_CapitalFirst(hx, table, pool, go, w) ==
    IF hx[TAIPEI].owner = PLA THEN [game_over |-> TRUE, winner |-> PLA]
    ELSE IF (~\E i \in 1..Len(table) : faction(table[i]) = PLA) /\ pool = <<>>
         THEN [game_over |-> TRUE, winner |-> ROC]
         ELSE [game_over |-> go, winner |-> w]

\* "Victory condition check" of run_end_of_turn_phase: two independent ifs
VictoryCheck(hx, table, pool, go, w) ==
    LET first == IF hx[TAIPEI].owner = PLA
                 THEN [game_over |-> TRUE, winner |-> PLA]
                 ELSE [game_over |-> go, winner |-> w]
        pla_units == SelectSeq(table, LAMBDA u : faction(u) = PLA)
    IN  IF pla_units = <<>> /\ pool = <<>>
        THEN [game_over |-> TRUE, winner |-> ROC]
        ELSE first

(***************************************************************************)
(* run_simulation: the turn loop and its seven phase calls                 *)
(***************************************************************************)
\* a turn loop in which the defender acts before the invader
AfterPhase_RocFirst(p) ==
    CASE p = "air_sea" -> "supply"
      [] p = "supply" -> "action_ROC"
      [] p = "action_ROC" -> "action_PLA"
      [] p = "action_PLA" -> "combat"
      [] p = "combat" -> "logistics"
      [] p = "logistics" -> "end_of_turn"
      [] p = "end_of_turn" -> "turn_end"

\* the position run_simulation reaches when the phase called at p returns
AfterPhase(p) ==
    CASE p = "air_sea" -> "supply"
      [] p = "supply" -> "action_PLA"
      [] p = "action_PLA" -> "action_ROC"
      [] p = "action_ROC" -> "combat"
      [] p = "combat" -> "logistics"
      [] p = "logistics" -> "end_of_turn"
      [] p = "end_of_turn" -> "turn_end"

Entered(phase, f) == Append(phase_log, <<phase, f>>)

(***************************************************************************)
(* Initial state: SimulationEngine.__init__ over the reference data.       *)
(* The order of battle places P1 on the PLA-held beach A11 and R1 in the    *)
(* capital A10; P2 waits in the reinforcement pool or is absent, and R2 is  *)
(* not deployed.                                                           *)
(***************************************************************************)
InitialHexes ==
    [h \in HexIds |->
        [owner |-> IF h = <<"A", 11>> THEN PLA ELSE ROC,
         units |-> CASE h = <<"A", 10>> -> <<"R1">>
                     [] h = <<"A", 11>> -> <<"P1">>
                     [] OTHER -> <<>>]]

Init ==
    /\ pc = "loop"
    /\ turn_number = 1
    /\ current_phase = NoPhase
    /\ game_over = FALSE
    /\ winner = NoFaction
    /\ raised = "None"
    /\ is_roc_interdicted = FALSE
    /\ pla_amphibious_lift_capacity = PLA_INITIAL_AMPHIBIOUS_CAPACITY * LiftScale
    /\ \E pool \in {<<>>, <<"P2">>} :
          /\ pla_reinforcement_pool = pool
          /\ hexes = InitialHexes
          /\ units = <<"R1", "P1">>
          /\ unit_objs = [u \in {"R1", "P1"} \cup Range(pool) |->
                            CASE u = "R1" -> NewUnit(u, <<"A", 10>>, 100)
                              [] u = "P1" -> NewUnit(u, <<"A", 11>>, 100)
                              [] OTHER -> NewUnit(u, NoHex, 100)]
    /\ pending_combats = <<>>
    /\ phase_log = <<>>
    /\ declared_log = <<>>
    /\ resolved_log = <<>>
    /\ call_args = <<>>
    /\ call_result = <<>>

(***************************************************************************)
(* Actions                                                                 *)
(***************************************************************************)
\* the while test succeeds: "Reset unit action flags at start of turn"
run_simulation_turn ==
    /\ pc = "loop"
    /\ turn_number <= MAX_TURNS /\ ~game_over
    /\ turn_number <= MaxTurnsExplored
    /\ unit_objs' = [u \in DOMAIN unit_objs |->
                        IF InUnits(u)
                        THEN [unit_objs[u] EXCEPT !.has_moved = FALSE,
                                                  !.has_attacked = FALSE,
                                                  !.is_fortified = FALSE,
                                                  !.is_supporting_arty = FALSE]
                        ELSE unit_objs[u]]
    /\ pc' = "air_sea"
    /\ phase_log' = <<>>
    /\ declared_log' = <<>>
    /\ resolved_log' = <<>>
    /\ UNCHANGED <<turn_number, current_phase, game_over, winner, raised,
                   is_roc_interdicted, pla_amphibious_lift_capacity, hexes, units,
                   pla_reinforcement_pool, pending_combats>>
    /\ UNCHANGED <<call_args, call_result>>

\* the while test fails: the code after the loop
run_simulation_end ==
    /\ pc = "loop"
    /\ ~(turn_number <= MAX_TURNS /\ ~game_over)
    /\ IF winner # NoFaction \/ game_over
       THEN UNCHANGED <<game_over, winner>>
       ELSE game_over' = TRUE /\ winner' = ROC
    /\ pc' = "done"
    /\ UNCHANGED <<turn_number, current_phase, raised, is_roc_interdicted,
                   pla_amphibious_lift_capacity, hexes, unit_objs, units,
                   pla_reinforcement_pool, pending_combats, phase_log, declared_log, resolved_log>>
    /\ UNCHANGED <<call_args, call_result>>

\* "if not self.game_over: self.turn_number += 1" after the seven phase calls
run_simulation_next ==
    /\ pc = "turn_end"
    /\ turn_number' = IF ~game_over THEN turn_number + 1 ELSE turn_number
    /\ pc' = "loop"
    /\ UNCHANGED <<current_phase, game_over, winner, raised, is_roc_interdicted,
                   pla_amphibious_lift_capacity, hexes, unit_objs, units,
                   pla_reinforcement_pool, pending_combats, phase_log, declared_log, resolved_log>>
    /\ UNCHANGED <<call_args, call_result>>

run_air_sea_phase ==
    /\ pc = "air_sea"
    /\ current_phase' = AIR_SEA_EFFECTS
    /\ phase_log' = Entered(AIR_SEA_EFFECTS, NoFaction)
    \* random.random() < PLA_INTERDICTION_SUCCESS_RATE
    /\ is_roc_interdicted' \in BOOLEAN
    /\ pla_amphibious_lift_capacity' =
          IF turn_number <= LIFT_DECAY_LAST_TURN
          THEN pla_amphibious_lift_capacity
                  - pla_amphibious_lift_capacity \div PLA_LIFT_CAPACITY_DECAY_DEN
          ELSE pla_amphibious_lift_capacity
    /\ pc' = AfterPhase("air_sea")
    /\ UNCHANGED <<turn_number, game_over, winner, raised, hexes, unit_objs, units,
                   pla_reinforcement_pool, pending_combats, declared_log, resolved_log>>
    /\ UNCHANGED <<call_args, call_result>>

run_supply_phase ==
    /\ pc = "supply"
    /\ current_phase' = SUPPLY_STATUS
    /\ phase_log' = Entered(SUPPLY_STATUS, NoFaction)
    /\ unit_objs' = SupplyUpdate(unit_objs)
    /\ pc' = AfterPhase("supply")
    /\ UNCHANGED <<turn_number, game_over, winner, raised, is_roc_interdicted,
                   pla_amphibious_lift_capacity, hexes, units,
                   pla_reinforcement_pool, pending_combats, declared_log, resolved_log>>
    /\ UNCHANGED <<call_args, call_result>>

\* action records a strategy may return besides the legal ones: each kind
\* aimed at a unit id that is in no table
StaleActions ==
    { MoveAction(GhostUnit, << <<"A", 11>>, <<"B", 10>> >>),
      AttackAction(<<GhostUnit>>, TAIPEI),
      FortifyAction(GhostUnit),
      ArtilleryAction(GhostUnit, TAIPEI) }

\* what agent.choose_actions returns: up to MaxActions records of the legal
\* list, in any order and with repeats, so a later record can name a unit an
\* earlier record of the same list has already flagged
StrategyOutputs(possible_actions) ==
    SeqUpTo(Range(possible_actions), MaxActions)

OnlyPass(actions) ==
    actions = <<>> \/ (Len(actions) = 1 /\ actions[1].action = PASS)

ActionPc(f) == IF f = PLA THEN "action_PLA" ELSE "action_ROC"

\* the calls of declare_attack the execution loop makes for a list
DeclaredBy(f, actions) ==
    LET attacks == SelectSeq(actions, LAMBDA a : a.action = ATTACK)
    IN  [i \in 1..Len(attacks) |-> [by |-> f, combat |-> attacks[i]]]

run_player_action_phase(f) ==
    /\ pc = ActionPc(f)
    /\ current_phase' = PLAYER_ACTION
    /\ phase_log' = Entered(PLAYER_ACTION, f)
    /\ LET possible_actions == get_possible_actions(f)
       IN  \E chosen \in (IF OnlyPass(possible_actions) THEN {<<>>}
                          ELSE StrategyOutputs(possible_actions)) :
              LET e == IF OnlyPass(chosen) THEN Engine ELSE ExecuteAll(Engine, chosen)
              IN  /\ hexes' = e.hexes
                  /\ unit_objs' = e.unit_objs
                  /\ pending_combats' = e.pending_combats
                  /\ declared_log' = IF OnlyPass(chosen) THEN declared_log
                                     ELSE declared_log \o DeclaredBy(f, chosen)
    /\ pc' = AfterPhase(ActionPc(f))
    /\ UNCHANGED <<turn_number, game_over, winner, raised, is_roc_interdicted,
                   pla_amphibious_lift_capacity, units, pla_reinforcement_pool,
                   resolved_log>>
    /\ UNCHANGED <<call_args, call_result>>

\* the records a strategy can build for itself: one of each kind for every
\* unit the engine knows, in the table or in the pool, and every hex, besides
\* the ones aimed at a unit that does not exist
AnyRecords ==
    StaleActions \cup
    UNION { { MoveAction(u, <<unit_objs[u].location_hex_id, h>>),
              AttackAction(<<u>>, h),
              FortifyAction(u),
              ArtilleryAction(u, h) } : u \in DOMAIN unit_objs, h \in HexIds }

\* _run_player_action_phase with a strategy that returns whatever records it
\* likes: the execution loop takes the returned list as it comes and never
\* compares it with possible_actions
run_player_action_phase_any(f) ==
    /\ pc = ActionPc(f)
    /\ current_phase' = PLAYER_ACTION
    /\ phase_log' = Entered(PLAYER_ACTION, f)
    /\ LET possible_actions == get_possible_actions(f)
       IN  \E chosen \in (IF OnlyPass(possible_actions) THEN {<<>>}
                          ELSE SeqUpTo(Range(possible_actions) \cup AnyRecords,
                                       MaxActions)) :
              LET e == IF OnlyPass(chosen) THEN Engine ELSE ExecuteAll(Engine, chosen)
              IN  /\ hexes' = e.hexes
                  /\ unit_objs' = e.unit_objs
                  /\ pending_combats' = e.pending_combats
                  /\ declared_log' = IF OnlyPass(chosen) THEN declared_log
                                     ELSE declared_log \o DeclaredBy(f, chosen)
    /\ pc' = AfterPhase(ActionPc(f))
    /\ UNCHANGED <<turn_number, game_over, winner, raised, is_roc_interdicted,
                   pla_amphibious_lift_capacity, units, pla_reinforcement_pool,
                   resolved_log>>
    /\ UNCHANGED <<call_args, call_result>>

\* a combat phase that forgets "self.pending_combats = []"
AfterCombatQueue_Kept(combats) == combats

\* the queue run_combat_resolution_phase leaves
AfterCombatQueue(combats) == <<>>

run_combat_resolution_phase ==
    /\ pc = "combat"
    /\ current_phase' = COMBAT_RESOLUTION
    /\ phase_log' = Entered(COMBAT_RESOLUTION, NoFaction)
    /\ IF pending_combats = <<>>
       THEN UNCHANGED <<hexes, unit_objs, pending_combats, resolved_log>>
       ELSE /\ \E e \in ResolveAll({[hexes |-> hexes, unit_objs |-> unit_objs]},
                                   pending_combats, 1) :
                  /\ hexes' = e.hexes
                  /\ unit_objs' = e.unit_objs
            /\ resolved_log' = resolved_log \o pending_combats
            /\ pending_combats' = AfterCombatQueue(pending_combats)
    /\ pc' = AfterPhase("combat")
    /\ UNCHANGED <<turn_number, game_over, winner, raised, is_roc_interdicted,
                   pla_amphibious_lift_capacity, units, pla_reinforcement_pool,
                   declared_log>>
    /\ UNCHANGED <<call_args, call_result>>

\* a landing phase that takes every Coastal hex for a landing zone, whoever
\* owns it
run_logistics_AnyCoast ==
    /\ pc = "logistics"
    /\ current_phase' = LOGISTICS_REINFORCEMENT
    /\ phase_log' = Entered(LOGISTICS_REINFORCEMENT, NoFaction)
    /\ LET landing_zones ==
               SelectSeq(HexOrder, LAMBDA h : terrain_type(h) = "Coastal")
           e == LandLoop(pla_reinforcement_pool, pla_amphibious_lift_capacity,
                         landing_zones,
                         [hexes |-> hexes, unit_objs |-> unit_objs,
                          units |-> units, pool |-> pla_reinforcement_pool])
       IN  /\ hexes' = e.hexes
           /\ unit_objs' = e.unit_objs
           /\ units' = e.units
           /\ pla_reinforcement_pool' = e.pool
    /\ pc' = AfterPhase("logistics")
    /\ UNCHANGED <<turn_number, game_over, winner, raised, is_roc_interdicted,
                   pla_amphibious_lift_capacity, pending_combats, declared_log, resolved_log>>
    /\ UNCHANGED <<call_args, call_result>>

run_logistics_reinforcement_phase ==
    /\ pc = "logistics"
    /\ current_phase' = LOGISTICS_REINFORCEMENT
    /\ phase_log' = Entered(LOGISTICS_REINFORCEMENT, NoFaction)
    /\ LET landing_zones ==
               SelectSeq(HexOrder,
                   LAMBDA h : terrain_type(h) = "Coastal" /\ hexes[h].owner = PLA)
           e == IF landing_zones = <<>>
                THEN [hexes |-> hexes, unit_objs |-> unit_objs, units |-> units,
                      pool |-> pla_reinforcement_pool]
                ELSE LandLoop(pla_reinforcement_pool, pla_amphibious_lift_capacity,
                              landing_zones,
                              [hexes |-> hexes, unit_objs |-> unit_objs,
                               units |-> units, pool |-> pla_reinforcement_pool])
       IN  /\ hexes' = e.hexes
           /\ unit_objs' = e.unit_objs
           /\ units' = e.units
           /\ pla_reinforcement_pool' = e.pool
    /\ pc' = AfterPhase("logistics")
    /\ UNCHANGED <<turn_number, game_over, winner, raised, is_roc_interdicted,
                   pla_amphibious_lift_capacity, pending_combats, declared_log, resolved_log>>
    /\ UNCHANGED <<call_args, call_result>>

\* run_end_of_turn_phase: purge, victory check, then the supply search on the
\* loop variable "unit" of the purge, which is unbound when nothing was purged
run_end_of_turn_phase ==
    /\ pc = "end_of_turn"
    /\ current_phase' = END_OF_TURN
    /\ phase_log' = Entered(END_OF_TURN, NoFaction)
    /\ LET destroyed_units == SelectSeq(units, LAMBDA u : unit_objs[u].strength <= 0)
           e == Purge(destroyed_units,
                      [hexes |-> hexes, unit_objs |-> unit_objs, units |-> units])
           v == VictoryCheck(e.hexes, e.units, pla_reinforcement_pool, game_over, winner)
       IN  /\ hexes' = e.hexes
           /\ unit_objs' = e.unit_objs
           /\ units' = e.units
           /\ game_over' = v.game_over
           /\ winner' = v.winner
           /\ IF destroyed_units = <<>>
              THEN raised' = "UnboundLocalError" /\ pc' = "raised"
              ELSE IF unit_objs[destroyed_units[Len(destroyed_units)]].location_hex_id = NoHex
                   THEN raised' = "KeyError" /\ pc' = "raised"
                   ELSE raised' = raised /\ pc' = AfterPhase("end_of_turn")
    /\ UNCHANGED <<turn_number, is_roc_interdicted, pla_amphibious_lift_capacity,
                   pla_reinforcement_pool, pending_combats, declared_log, resolved_log>>
    /\ UNCHANGED <<call_args, call_result>>

Next ==
    \/ run_simulation_turn
    \/ run_air_sea_phase
    \/ run_supply_phase
    \/ \E f \in Faction : run_player_action_phase(f)
    \/ run_combat_resolution_phase
    \/ run_logistics_reinforcement_phase
    \/ run_end_of_turn_phase
    \/ run_simulation_next
    \/ run_simulation_end

Spec == Init /\ [][Next]_vars

(***************************************************************************)
(* Unit.take_damage and elimination on their own: strengths drawn from the *)
(* whole legal range, then any sequence of calls with percentages up to    *)
(* MaxPct.                                                                 *)
(***************************************************************************)
InitDamage ==
    /\ pc = "damage"
    /\ turn_number = 1
    /\ current_phase = NoPhase
    /\ game_over = FALSE
    /\ winner = NoFaction
    /\ raised = "None"
    /\ is_roc_interdicted = FALSE
    /\ pla_amphibious_lift_capacity = PLA_INITIAL_AMPHIBIOUS_CAPACITY * LiftScale
    /\ pla_reinforcement_pool = <<>>
    /\ hexes = InitialHexes
    /\ units = <<"R1", "P1">>
    /\ \E s \in 1..100 :
          unit_objs = [u \in {"R1", "P1"} |->
                          IF u = "R1" THEN NewUnit(u, <<"A", 10>>, s)
                          ELSE NewUnit(u, <<"A", 11>>, 100)]
    /\ pending_combats = <<>>
    /\ phase_log = <<>>
    /\ declared_log = <<>>
    /\ resolved_log = <<>>
    /\ call_args = <<>>
    /\ call_result = <<>>

\* "for unit in us: unit.take_damage(percentage)" with any percentage
take_damage_call ==
    /\ pc = "damage"
    /\ \E u \in Range(units), percentage \in 0..MaxPct :
          unit_objs' = DamageAll(unit_objs, <<u>>, percentage)
    /\ UNCHANGED <<pc, turn_number, current_phase, game_over, winner, raised,
                   is_roc_interdicted, pla_amphibious_lift_capacity, hexes, units,
                   pla_reinforcement_pool, pending_combats, phase_log, declared_log,
                   resolved_log>>
    /\ UNCHANGED <<call_args, call_result>>

\* the DX / AX branch: "unit.strength = 0"
eliminate_call ==
    /\ pc = "damage"
    /\ \E u \in Range(units) : unit_objs' = EliminateAll(unit_objs, <<u>>)
    /\ UNCHANGED <<pc, turn_number, current_phase, game_over, winner, raised,
                   is_roc_interdicted, pla_amphibious_lift_capacity, hexes, units,
                   pla_reinforcement_pool, pending_combats, phase_log, declared_log,
                   resolved_log>>
    /\ UNCHANGED <<call_args, call_result>>

NextDamage ==
    \/ take_damage_call
    \/ eliminate_call

SpecDamage == InitDamage /\ [][NextDamage]_vars

(***************************************************************************)
(* get_hex_distance on its own, over the 130 hexes of the hex_map table    *)
(* (columns A..J, rows 1..13).  call_args is the pair of ids passed, also  *)
(* ids that are no hex of the map; call_result the value returned.         *)
(***************************************************************************)
hex_map ==
    {<<c, r>> : c \in {"A", "B", "C", "D", "E", "F", "G", "H", "I", "J"}, r \in 1..13}

\* ids outside the table: a row below, a row above, a column beyond
OffMapIds == {<<"A", 0>>, <<"J", 14>>, <<"K", 5>>, <<"E", 14>>}

InitDistance ==
    /\ pc = "get_hex_distance"
    /\ turn_number = 1
    /\ current_phase = NoPhase
    /\ game_over = FALSE
    /\ winner = NoFaction
    /\ raised = "None"
    /\ is_roc_interdicted = FALSE
    /\ pla_amphibious_lift_capacity = PLA_INITIAL_AMPHIBIOUS_CAPACITY * LiftScale
    /\ pla_reinforcement_pool = <<>>
    /\ hexes = [h \in HexIds |-> [InitialHexes[h] EXCEPT !.units = <<>>]]
    /\ units = <<>>
    /\ unit_objs = <<>>
    /\ pending_combats = <<>>
    /\ phase_log = <<>>
    /\ declared_log = <<>>
    /\ resolved_log = <<>>
    /\ \E hex1_id \in hex_map \cup OffMapIds, hex2_id \in hex_map \cup OffMapIds :
          call_args = <<hex1_id, hex2_id>>
    /\ call_result = <<>>

get_hex_distance_call ==
    /\ pc = "get_hex_distance"
    /\ call_result = <<>>
    /\ call_result' = <<HexDistanceIn(hex_map, call_args[1], call_args[2])>>
    /\ UNCHANGED <<pc, turn_number, current_phase, game_over, winner, raised,
                   is_roc_interdicted, pla_amphibious_lift_capacity, hexes, units,
                   unit_objs, pla_reinforcement_pool, pending_combats, phase_log,
                   declared_log, resolved_log, call_args>>

NextDistance == get_hex_distance_call

SpecDistance == InitDistance /\ [][NextDistance]_vars

(***************************************************************************)
(* The parse at the head of _apply_combat_result on its own.  call_args is *)
(* the result string passed: a cell of the combat results table or a cell  *)
(* cut short; call_result the match and its groups.                        *)
(***************************************************************************)
TableCells ==
    {combat_results_table[r][c] : r \in 1..Len(combat_results_table),
                                  c \in 1..Len(combat_results_table[1])}

ResultStrings == UNION {{SubSeq(cell, 1, k) : k \in 1..Len(cell)} : cell \in TableCells}

InitParse ==
    /\ pc = "apply_combat_result"
    /\ turn_number = 1
    /\ current_phase = NoPhase
    /\ game_over = FALSE
    /\ winner = NoFaction
    /\ raised = "None"
    /\ is_roc_interdicted = FALSE
    /\ pla_amphibious_lift_capacity = PLA_INITIAL_AMPHIBIOUS_CAPACITY * LiftScale
    /\ pla_reinforcement_pool = <<>>
    /\ hexes = [h \in HexIds |-> [InitialHexes[h] EXCEPT !.units = <<>>]]
    /\ units = <<>>
    /\ unit_objs = <<>>
    /\ pending_combats = <<>>
    /\ phase_log = <<>>
    /\ declared_log = <<>>
    /\ resolved_log = <<>>
    /\ \E result \in ResultStrings : call_args = result
    /\ call_result = <<>>

parse_result_call ==
    /\ pc = "apply_combat_result"
    /\ call_result = <<>>
    /\ call_result' = ParseResult(call_args)
    /\ UNCHANGED <<pc, turn_number, current_phase, game_over, winner, raised,
                   is_roc_interdicted, pla_amphibious_lift_capacity, hexes, units,
                   unit_objs, pla_reinforcement_pool, pending_combats, phase_log,
                   declared_log, resolved_log, call_args>>

NextParse == parse_result_call

SpecParse == InitParse /\ [][NextParse]_vars

(***************************************************************************)
(* _get_possible_actions on its own, for a faction and a drawn deployment: *)
(* the four units stand anywhere on the map, the units of the faction      *)
(* passed each with its type's movement points, with one point or with     *)
(* none left, and one unit may have attacked already.                      *)
(* call_args is the faction passed, call_result the list returned.         *)
(***************************************************************************)
DeployOrder == <<"R1", "R2", "P1", "P2">>

\* the units that may carry the has_attacked flag at the call
SpentSets == {{}, {"P1"}, {"R1"}}

InitActions ==
    /\ pc = "get_possible_actions"
    /\ turn_number = 1
    /\ current_phase = PLAYER_ACTION
    /\ game_over = FALSE
    /\ winner = NoFaction
    /\ raised = "None"
    /\ is_roc_interdicted = FALSE
    /\ pla_amphibious_lift_capacity = PLA_INITIAL_AMPHIBIOUS_CAPACITY * LiftScale
    /\ pla_reinforcement_pool = <<>>
    /\ pending_combats = <<>>
    /\ phase_log = <<>>
    /\ declared_log = <<>>
    /\ resolved_log = <<>>
    /\ units = DeployOrder
    /\ \E f \in Faction, loc \in [AllUnits -> HexIds], spent \in SpentSets :
       \E mp \in [{u \in AllUnits : faction(u) = f} -> {"full", "one", "none"}] :
          /\ call_args = f
          /\ unit_objs =
                [u \in AllUnits |->
                    [NewUnit(u, loc[u], 100) EXCEPT
                        !.movement_points =
                            IF faction(u) # f \/ mp[u] = "full" THEN @
                            ELSE IF mp[u] = "one" THEN 1 ELSE 0,
                        !.has_attacked = u \in spent]]
          /\ hexes = [h \in HexIds |->
                        [owner |-> InitialHexes[h].owner,
                         units |-> SelectSeq(DeployOrder, LAMBDA u : loc[u] = h)]]
    /\ call_result = <<>>

get_possible_actions_call ==
    /\ pc = "get_possible_actions"
    /\ call_result = <<>>
    /\ call_result' = get_possible_actions(call_args)
    /\ UNCHANGED <<pc, turn_number, current_phase, game_over, winner, raised,
                   is_roc_interdicted, pla_amphibious_lift_capacity, hexes, units,
                   unit_objs, pla_reinforcement_pool, pending_combats, phase_log,
                   declared_log, resolved_log, call_args>>

NextActions == get_possible_actions_call

SpecActions == InitActions /\ [][NextActions]_vars

(***************************************************************************)
(* _resolve_combat on its own: one declaration resolved against a drawn    *)
(* battle.  The attackers stand stacked in one hex, the defenders (if any) *)
(* in the adjacent target hex; strengths, supply status, fortification and *)
(* the target's owner are drawn.  call_args is the declaration,            *)
(* call_result the d20 roll and the state the call found.                  *)
(***************************************************************************)
\* <<attackers' hex, target hex>>: adjacent pairs of the map
CombatPairs ==
    { << <<"A", 10>>, <<"A", 11>> >>, << <<"A", 11>>, <<"A", 10>> >>,
      << <<"B", 11>>, <<"B", 10>> >>, << <<"B", 10>>, <<"B", 11>> >> }

\* the stacks a faction can field, in occupant-list order
Stacks(f) ==
    IF f = PLA THEN { <<"P1">>, <<"P2">>, <<"P1", "P2">> }
    ELSE { <<"R1">>, <<"R2">>, <<"R1", "R2">> }

OtherFaction(f) == IF f = PLA THEN ROC ELSE PLA

DrawnStrengths == {100, 50}

InitCombat ==
    /\ pc = "resolve_combat"
    /\ turn_number = 1
    /\ current_phase = COMBAT_RESOLUTION
    /\ game_over = FALSE
    /\ winner = NoFaction
    /\ raised = "None"
    /\ is_roc_interdicted = FALSE
    /\ pla_amphibious_lift_capacity = PLA_INITIAL_AMPHIBIOUS_CAPACITY * LiftScale
    /\ pla_reinforcement_pool = <<>>
    /\ phase_log = <<>>
    /\ declared_log = <<>>
    /\ resolved_log = <<>>
    /\ call_result = <<>>
    /\ \E pair \in CombatPairs, af \in Faction :
       \E att \in Stacks(af), def \in Stacks(OtherFaction(af)) \cup {<<>>} :
       \E str \in [Range(att) \cup Range(def) -> DrawnStrengths],
          att_oos \in BOOLEAN, def_oos \in BOOLEAN, fort \in BOOLEAN,
          owner \in Faction :
          LET placed == Range(att) \cup Range(def)
              tbl == IF af = ROC THEN att \o def ELSE def \o att
          IN  /\ units = tbl
              /\ hexes = [h \in HexIds |->
                            [owner |-> IF h = pair[2] THEN owner ELSE ROC,
                             units |-> CASE h = pair[1] -> att
                                         [] h = pair[2] -> def
                                         [] OTHER -> <<>>]]
              /\ unit_objs =
                    [u \in placed |->
                        IF InSeq(u, att)
                        THEN [NewUnit(u, pair[1], str[u]) EXCEPT
                                 !.has_attacked = TRUE, !.has_moved = TRUE,
                                 !.supply_status =
                                     IF att_oos THEN Out_Of_Supply ELSE In_Supply]
                        ELSE [NewUnit(u, pair[2], str[u]) EXCEPT
                                 !.is_fortified = fort,
                                 !.supply_status =
                                     IF def_oos THEN Out_Of_Supply ELSE In_Supply]]
              /\ pending_combats = <<AttackAction(att, pair[2])>>
              /\ call_args = AttackAction(att, pair[2])

\* one call of _resolve_combat with the roll random.randint draws
resolve_combat_call ==
    /\ pc = "resolve_combat"
    /\ call_result = <<>>
    /\ \E d20_roll \in 1..D20_SIDES :
       \E e \in resolve_combat([hexes |-> hexes, unit_objs |-> unit_objs],
                               call_args, d20_roll) :
          /\ hexes' = e.hexes
          /\ unit_objs' = e.unit_objs
          /\ call_result' = [d20_roll |-> d20_roll,
                             hexes |-> hexes, unit_objs |-> unit_objs]
    /\ pending_combats' = <<>>
    /\ UNCHANGED <<pc, turn_number, current_phase, game_over, winner, raised,
                   is_roc_interdicted, pla_amphibious_lift_capacity, units,
                   pla_reinforcement_pool, phase_log, declared_log, resolved_log,
                   call_args>>

NextCombat == resolve_combat_call

SpecCombat == InitCombat /\ [][NextCombat]_vars

(***************************************************************************)
(* _resolve_combat on battles drawn for the odds computation: one terrain  *)
(* of every defense multiplier, strengths that put the odds on and off the *)
(* column boundaries (a defense of zero included), and the supply and      *)
(* fortification flags on none, one or all units of a stack.               *)
(***************************************************************************)
\* <<attackers' hex, target hex>>: a Coastal, an Urban and a Hills target
OddsPairs ==
    { << <<"A", 10>>, <<"A", 11>> >>, << <<"A", 11>>, <<"A", 10>> >>,
      << <<"B", 10>>, <<"B", 11>> >> }

OddsStrengths == {100, 70, 0}

\* the units of a stack that carry a flag: none, the first, all
Flagged(stack) == { {}, {stack[1]}, Range(stack) }

InitOdds ==
    /\ pc = "resolve_combat"
    /\ turn_number = 1
    /\ current_phase = COMBAT_RESOLUTION
    /\ game_over = FALSE
    /\ winner = NoFaction
    /\ raised = "None"
    /\ is_roc_interdicted = FALSE
    /\ pla_amphibious_lift_capacity = PLA_INITIAL_AMPHIBIOUS_CAPACITY * LiftScale
    /\ pla_reinforcement_pool = <<>>
    /\ phase_log = <<>>
    /\ declared_log = <<>>
    /\ resolved_log = <<>>
    /\ call_result = <<>>
    /\ \E pair \in OddsPairs, af \in Faction :
       \E att \in Stacks(af), def \in Stacks(OtherFaction(af)) :
       \E str \in [Range(att) \cup Range(def) -> OddsStrengths],
          att_oos \in Flagged(att), def_oos \in Flagged(def),
          fort \in Flagged(def) :
          LET placed == Range(att) \cup Range(def)
              tbl == IF af = ROC THEN att \o def ELSE def \o att
          IN  /\ units = tbl
              /\ hexes = [h \in HexIds |->
                            [owner |-> IF h = pair[2] THEN OtherFaction(af) ELSE ROC,
                             units |-> CASE h = pair[1] -> att
                                         [] h = pair[2] -> def
                                         [] OTHER -> <<>>]]
              /\ unit_objs =
                    [u \in placed |->
                        IF InSeq(u, att)
                        THEN [NewUnit(u, pair[1], str[u]) EXCEPT
                                 !.has_attacked = TRUE, !.has_moved = TRUE,
                                 !.supply_status =
                                     IF u \in att_oos THEN Out_Of_Supply ELSE In_Supply]
                        ELSE [NewUnit(u, pair[2], str[u]) EXCEPT
                                 !.is_fortified = u \in fort,
                                 !.supply_status =
                                     IF u \in def_oos THEN Out_Of_Supply ELSE In_Supply]]
              /\ pending_combats = <<AttackAction(att, pair[2])>>
              /\ call_args = AttackAction(att, pair[2])

NextOdds == resolve_combat_call

SpecOdds == InitOdds /\ [][NextOdds]_vars

(***************************************************************************)
(* _run_combat_resolution_phase over a results table given with the data   *)
(* files: two combats are queued, P1 on A11 against R1 in A10 and P2 on    *)
(* B10 against R2 on B11, in either order; the cell each lookup yields is  *)
(* drawn from well-formed and malformed strings.  call_result is the cells *)
(* and the state the phase found.                                          *)
(***************************************************************************)
\* the cells a table can hold: every beginning of 'A-10/D-20_DR', and two
\* whole cells of the reference table
DrawnCells ==
    {SubSeq(combat_results_table[2][3], 1, k) :
        k \in 1..Len(combat_results_table[2][3])}
        \cup {combat_results_table[1][1], combat_results_table[5][5]}

QueuedCombats ==
    << AttackAction(<<"P1">>, <<"A", 10>>), AttackAction(<<"P2">>, <<"B", 11>>) >>

InitCells ==
    /\ pc = "combat_cells"
    /\ turn_number = 1
    /\ current_phase = PLAYER_ACTION
    /\ game_over = FALSE
    /\ winner = NoFaction
    /\ raised = "None"
    /\ is_roc_interdicted = FALSE
    /\ pla_amphibious_lift_capacity = PLA_INITIAL_AMPHIBIOUS_CAPACITY * LiftScale
    /\ pla_reinforcement_pool = <<>>
    /\ phase_log = <<>>
    /\ declared_log = <<>>
    /\ resolved_log = <<>>
    /\ call_args = <<>>
    /\ call_result = <<>>
    /\ units = DeployOrder
    /\ hexes = [h \in HexIds |->
                  [owner |-> IF h = <<"A", 11>> THEN PLA ELSE ROC,
                   units |-> CASE h = <<"A", 10>> -> <<"R1">>
                               [] h = <<"A", 11>> -> <<"P1">>
                               [] h = <<"B", 10>> -> <<"P2">>
                               [] OTHER -> <<"R2">>]]
    /\ \E str \in [AllUnits -> DrawnStrengths] :
          unit_objs =
              [u \in AllUnits |->
                  [NewUnit(u, CHOOSE h \in HexIds : InSeq(u, hexes[h].units), str[u])
                      EXCEPT !.has_attacked = faction(u) = PLA]]
    /\ \E first \in 1..2 :
          pending_combats = << QueuedCombats[first], QueuedCombats[3 - first] >>

\* one call of _run_combat_resolution_phase, the lookups yielding cells
run_combat_resolution_cells ==
    /\ pc = "combat_cells"
    /\ call_result = <<>>
    /\ current_phase' = COMBAT_RESOLUTION
    /\ phase_log' = Entered(COMBAT_RESOLUTION, NoFaction)
    /\ \E cells \in [1..Len(pending_combats) -> DrawnCells] :
       \E e \in ResolveAllWith({[hexes |-> hexes, unit_objs |-> unit_objs]},
                                pending_combats, cells, 1) :
          /\ hexes' = e.hexes
          /\ unit_objs' = e.unit_objs
          /\ call_result' = [cells |-> cells, combats |-> pending_combats,
                             hexes |-> hexes, unit_objs |-> unit_objs]
    /\ resolved_log' = resolved_log \o pending_combats
    /\ pending_combats' = AfterCombatQueue(pending_combats)
    /\ UNCHANGED <<pc, turn_number, game_over, winner, raised, is_roc_interdicted,
                   pla_amphibious_lift_capacity, units, pla_reinforcement_pool,
                   declared_log, call_args>>

NextCells == run_combat_resolution_cells

SpecCells == InitCells /\ [][NextCells]_vars

(***************************************************************************)
(* One loss of apply_combat_result: take_damage called once on a unit of   *)
(* any strength with a percentage of the results table.  call_args is the  *)
(* percentage, call_result the strength the call found.                    *)
(***************************************************************************)
\* attacker_loss and defender_loss of the cells of the table
LossPercentages ==
    {ParseResult(cell).attacker_loss : cell \in TableCells}
        \cup {ParseResult(cell).defender_loss : cell \in TableCells}

InitLoss ==
    /\ pc = "take_damage"
    /\ turn_number = 1
    /\ current_phase = COMBAT_RESOLUTION
    /\ game_over = FALSE
    /\ winner = NoFaction
    /\ raised = "None"
    /\ is_roc_interdicted = FALSE
    /\ pla_amphibious_lift_capacity = PLA_INITIAL_AMPHIBIOUS_CAPACITY * LiftScale
    /\ pla_reinforcement_pool = <<>>
    /\ hexes = InitialHexes
    /\ units = <<"R1", "P1">>
    /\ \E strength \in 0..100, u \in {"R1", "P1"} :
          /\ unit_objs = [v \in {"R1", "P1"} |->
                            NewUnit(v, IF v = "R1" THEN <<"A", 10>> ELSE <<"A", 11>>,
                                    IF v = u THEN strength ELSE 100)]
          /\ \E percentage \in LossPercentages :
                call_args = [unit_id |-> u, percentage |-> percentage]
    /\ pending_combats = <<>>
    /\ phase_log = <<>>
    /\ declared_log = <<>>
    /\ resolved_log = <<>>
    /\ call_result = <<>>

\* "for unit in attackers: unit.take_damage(attacker_loss)" for one unit
take_damage_once ==
    /\ pc = "take_damage"
    /\ call_result = <<>>
    /\ unit_objs' = DamageAll(unit_objs, <<call_args.unit_id>>, call_args.percentage)
    /\ call_result' = [strength |-> unit_objs[call_args.unit_id].strength]
    /\ UNCHANGED <<pc, turn_number, current_phase, game_over, winner, raised,
                   is_roc_interdicted, pla_amphibious_lift_capacity, hexes, units,
                   pla_reinforcement_pool, pending_combats, phase_log, declared_log,
                   resolved_log, call_args>>

NextLoss == take_damage_once

SpecLoss == InitLoss /\ [][NextLoss]_vars

(***************************************************************************)
(* _run_logistics_reinforcement_phase on its own, on the four hexes A12,   *)
(* A13, B12 (Coastal) and B13 (Ocean) of the hex table: the owners of the  *)
(* hexes, the pool and its order, the hexes of the ROC units and the turn  *)
(* whose decay the lift capacity has gone through are drawn; the pool      *)
(* holds P1, P2 and a second armor battalion P3, and a PLA unit that is    *)
(* not in the pool has been destroyed and purged.  call_result is the      *)
(* state the phase found.                                                  *)
(***************************************************************************)
\* rows of the hex table, in file order
LandingHexOrder == << <<"A", 12>>, <<"A", 13>>, <<"B", 12>>, <<"B", 13>> >>
LandingHexIds == {LandingHexOrder[i] : i \in 1..Len(LandingHexOrder)}

PoolUnits == {"P1", "P2", "P3"}

\* the pools of the PLA units, in every order
DrawnPools ==
    {pool \in SeqUpTo(PoolUnits, 3) :
        \A i, j \in 1..Len(pool) : pool[i] = pool[j] => i = j}

\* the capacity after k decays by a quarter, in 1/LiftScale
RECURSIVE DecayedCapacity(_)
DecayedCapacity(k) ==
    IF k = 0 THEN PLA_INITIAL_AMPHIBIOUS_CAPACITY * LiftScale
    ELSE (DecayedCapacity(k - 1) * 3) \div 4

InitLanding ==
    /\ pc = "logistics_call"
    /\ turn_number = 1
    /\ current_phase = COMBAT_RESOLUTION
    /\ game_over = FALSE
    /\ winner = NoFaction
    /\ raised = "None"
    /\ is_roc_interdicted = FALSE
    /\ pending_combats = <<>>
    /\ phase_log = <<>>
    /\ declared_log = <<>>
    /\ resolved_log = <<>>
    /\ call_args = <<>>
    /\ call_result = <<>>
    /\ \E k \in 1..LIFT_DECAY_LAST_TURN :
          pla_amphibious_lift_capacity = DecayedCapacity(k)
    /\ \E pool \in DrawnPools : pla_reinforcement_pool = pool
    /\ units = <<"R1", "R2">>
    /\ \E owner \in [LandingHexIds -> Faction], loc \in [Range(units) -> LandingHexIds] :
          /\ hexes = [h \in LandingHexIds |->
                        [owner |-> owner[h],
                         units |-> SelectSeq(units, LAMBDA u : loc[u] = h)]]
          /\ unit_objs = [u \in Range(units) \cup Range(pla_reinforcement_pool) |->
                            NewUnit(u, IF InSeq(u, units) THEN loc[u] ELSE NoHex, 100)]

\* one call of _run_logistics_reinforcement_phase
run_logistics_call ==
    /\ pc = "logistics_call"
    /\ call_result = <<>>
    /\ current_phase' = LOGISTICS_REINFORCEMENT
    /\ phase_log' = Entered(LOGISTICS_REINFORCEMENT, NoFaction)
    /\ LET landing_zones ==
               SelectSeq(LandingHexOrder,
                   LAMBDA h : terrain_type(h) = "Coastal" /\ hexes[h].owner = PLA)
           e == IF landing_zones = <<>>
                THEN [hexes |-> hexes, unit_objs |-> unit_objs, units |-> units,
                      pool |-> pla_reinforcement_pool]
                ELSE LandLoop(pla_reinforcement_pool, pla_amphibious_lift_capacity,
                              landing_zones,
                              [hexes |-> hexes, unit_objs |-> unit_objs,
                               units |-> units, pool |-> pla_reinforcement_pool])
       IN  /\ hexes' = e.hexes
           /\ unit_objs' = e.unit_objs
           /\ units' = e.units
           /\ pla_reinforcement_pool' = e.pool
    /\ call_result' = [hexes |-> hexes, unit_objs |-> unit_objs, units |-> units,
                       pool |-> pla_reinforcement_pool]
    /\ UNCHANGED <<pc, turn_number, game_over, winner, raised, is_roc_interdicted,
                   pla_amphibious_lift_capacity, pending_combats, declared_log,
                   resolved_log, call_args>>

NextLanding == run_logistics_call

SpecLanding == InitLanding /\ [][NextLanding]_vars

(***************************************************************************)
(* The turn loop from a setup like the built-in tables: every hex is owned  *)
(* by ROC, ROC units R1 and R2 stand on the map and every PLA unit waits in *)
(* the reinforcement pool.  The pool, R1's hex and R2's initial_strength    *)
(* are drawn; call_args keeps the pool as it was built.  The strategies     *)
(* return whatever records they like.                                      *)
(***************************************************************************)
PooledOrders == {<<>>, <<"P1">>, <<"P1", "P2">>, <<"P2", "P1">>}

\* initial_strength of a reserve battalion, or of one listed with no strength
ReserveStrengths == {80, 0}

InitPooled ==
    /\ pc = "loop"
    /\ turn_number = 1
    /\ current_phase = NoPhase
    /\ game_over = FALSE
    /\ winner = NoFaction
    /\ raised = "None"
    /\ is_roc_interdicted = FALSE
    /\ pla_amphibious_lift_capacity = PLA_INITIAL_AMPHIBIOUS_CAPACITY * LiftScale
    /\ \E pool \in PooledOrders, loc \in HexIds, s \in ReserveStrengths :
          /\ pla_reinforcement_pool = pool
          /\ call_args = pool
          /\ hexes = [h \in HexIds |->
                         [owner |-> ROC,
                          units |-> (IF h = loc THEN <<"R1">> ELSE <<>>)
                                       \o (IF h = <<"B", 10>> THEN <<"R2">> ELSE <<>>)]]
          /\ units = <<"R1", "R2">>
          /\ unit_objs = [u \in {"R1", "R2"} \cup Range(pool) |->
                            CASE u = "R1" -> NewUnit(u, loc, 100)
                              [] u = "R2" -> NewUnit(u, <<"B", 10>>, s)
                              [] OTHER -> NewUnit(u, NoHex, 100)]
    /\ pending_combats = <<>>
    /\ phase_log = <<>>
    /\ declared_log = <<>>
    /\ resolved_log = <<>>
    /\ call_result = <<>>

NextAnyRecords ==
    \/ run_simulation_turn
    \/ run_air_sea_phase
    \/ run_supply_phase
    \/ \E f \in Faction : run_player_action_phase_any(f)
    \/ run_combat_resolution_phase
    \/ run_logistics_reinforcement_phase
    \/ run_end_of_turn_phase
    \/ run_simulation_next
    \/ run_simulation_end

SpecPooled == InitPooled /\ [][NextAnyRecords]_vars

\* a turn from the deployment of Init, both factions in play, as far as the
\* end of the second Player Action phase, with strategies that return
\* whatever records they like
NextActionPhases ==
    \/ run_simulation_turn
    \/ run_air_sea_phase
    \/ run_supply_phase
    \/ \E f \in Faction : run_player_action_phase_any(f)

SpecAnyRecords == Init /\ [][NextActionPhases]_vars

(***************************************************************************)
(* _get_possible_actions on the part of the built-in map around Taoyuan:   *)
(* hexes B9, B10, C8, C9 and C10 with the terrain of the hex table, and the *)
(* distant hex D5.  R1, P1 and P2 stand anywhere on them with the movement *)
(* points of their types and no flag set.  call_args is the faction        *)
(* passed, call_result the list returned.                                  *)
(***************************************************************************)
TaoyuanHexOrder ==
    << <<"B", 9>>, <<"B", 10>>, <<"C", 8>>, <<"C", 9>>, <<"C", 10>>, <<"D", 5>> >>

TaoyuanUnits == <<"R1", "P1", "P2">>

InitMoves ==
    /\ pc = "get_possible_actions"
    /\ turn_number = 1
    /\ current_phase = PLAYER_ACTION
    /\ game_over = FALSE
    /\ winner = NoFaction
    /\ raised = "None"
    /\ is_roc_interdicted = FALSE
    /\ pla_amphibious_lift_capacity = PLA_INITIAL_AMPHIBIOUS_CAPACITY * LiftScale
    /\ pla_reinforcement_pool = <<>>
    /\ pending_combats = <<>>
    /\ phase_log = <<>>
    /\ declared_log = <<>>
    /\ resolved_log = <<>>
    /\ units = TaoyuanUnits
    /\ \E f \in Faction, loc \in [Range(TaoyuanUnits) -> Range(TaoyuanHexOrder)] :
          /\ call_args = f
          /\ unit_objs = [u \in Range(TaoyuanUnits) |-> NewUnit(u, loc[u], 100)]
          /\ hexes = [h \in Range(TaoyuanHexOrder) |->
                        [owner |-> ROC,
                         units |-> SelectSeq(TaoyuanUnits, LAMBDA u : loc[u] = h)]]
    /\ call_result = <<>>

SpecMoves == InitMoves /\ [][NextActions]_vars

(***************************************************************************)
(* Properties                                                              *)
(***************************************************************************)
\* the seven phase entries of one turn, in the documented order
PhaseOrder ==
    << <<AIR_SEA_EFFECTS, NoFaction>>, <<SUPPLY_STATUS, NoFaction>>,
       <<PLAYER_ACTION, PLA>>, <<PLAYER_ACTION, ROC>>,
       <<COMBAT_RESOLUTION, NoFaction>>, <<LOGISTICS_REINFORCEMENT, NoFaction>>,
       <<END_OF_TURN, NoFaction>> >>

\* the End of Turn phase of the current turn has run
EndOfTurnRan == phase_log # <<>> /\ phase_log[Len(phase_log)][1] = END_OF_TURN

PlaUnitsLeft == \E i \in 1..Len(units) : faction(units[i]) = PLA

\* C1: in every turn the phases are entered in the order Air & Sea, Supply,
\* Player Action (PLA), Player Action (ROC), Combat Resolution, Logistics,
\* End of Turn: the entries of a turn are always a prefix of that order (none
\* skipped, repeated or out of order), a turn that ends has entered all
\* seven, and the phase marked active is the one entered last.
C1_PhaseOrder ==
    /\ Len(phase_log) <= Len(PhaseOrder)
    /\ phase_log = SubSeq(PhaseOrder, 1, Len(phase_log))
    /\ (phase_log # <<>> => current_phase = phase_log[Len(phase_log)][1])
    /\ (pc = "turn_end" => phase_log = PhaseOrder)
    /\ (pc = "air_sea" => phase_log = <<>>)

C1_Witness ==
    /\ pc = "turn_end"
    /\ turn_number = 2
    /\ phase_log = PhaseOrder

\* the combats of the declarations logged so far, in order
DeclaredCombats == [i \in 1..Len(declared_log) |-> declared_log[i].combat]

\* C2: every attack declared in the two Player Action phases of a turn is
\* resolved exactly once, in that turn's Combat Resolution phase, in
\* declaration order with PLA's declarations first, and only after both
\* factions have acted; the pending queue is empty when Combat Resolution
\* has ended and at the start of every turn.
C2_CombatQueue ==
    /\ (pc \in {"loop", "air_sea", "supply", "action_PLA"} => pending_combats = <<>>)
    /\ (pc \in {"action_ROC", "combat"} =>
            pending_combats = DeclaredCombats /\ resolved_log = <<>>)
    /\ (pc \in {"logistics", "end_of_turn", "turn_end", "raised", "done"} =>
            pending_combats = <<>>)
    /\ (pc \in {"logistics", "end_of_turn", "turn_end"} => resolved_log = DeclaredCombats)
    /\ \A i, j \in 1..Len(declared_log) :
            i < j => ~(declared_log[i].by = ROC /\ declared_log[j].by = PLA)

C2_Witness ==
    /\ pc = "logistics"
    /\ Len(resolved_log) = 2
    /\ declared_log[1].by = PLA
    /\ declared_log[2].by = ROC

\* the units an action record names
ActionUnits(a) == IF a.action = ATTACK THEN Range(a.attacking_units) ELSE {a.unit_id}

\* the record names a unit that is in no table or is already flagged
IsStale(a) ==
    \E u \in ActionUnits(a) :
        ~InUnits(u) \/ unit_objs[u].has_moved \/ unit_objs[u].has_attacked

\* one record of each kind for every unit of the table, besides the ones
\* aimed at a unit that does not exist
ActionRecords ==
    StaleActions \cup
    UNION { { MoveAction(units[i], <<unit_objs[units[i]].location_hex_id, h>>),
              AttackAction(<<units[i]>>, h),
              FortifyAction(units[i]),
              ArtilleryAction(units[i], h) } : i \in 1..Len(units), h \in HexIds }

\* C3: during a Player Action phase, executing an action of any kind that
\* names a unit missing from the unit table, or a unit whose has_moved or
\* has_attacked flag is already set, leaves the engine state (locations,
\* flags, occupant lists, pending queue) unchanged.
C3_StaleActionIgnored ==
    pc \in {"action_PLA", "action_ROC"} =>
        \A a \in ActionRecords : IsStale(a) => ExecuteAction(Engine, a) = Engine

\* C4: no phase of the turn machine raises: every phase entered runs to
\* completion, End of Turn included, whether or not a unit was destroyed in
\* the turn.
C4_NoPhaseRaises == raised = "None"

\* C5: if PLA owns the capital A10 when End of Turn runs, the phase ends with
\* game_over true and winner PLA, whatever else holds.
C5_CapitalDecides ==
    (EndOfTurnRan /\ hexes[TAIPEI].owner = PLA) => (game_over /\ winner = PLA)

C7_TurnCounter ==
    /\ turn_number \in 1..(MAX_TURNS + 1)
    /\ ((EndOfTurnRan /\ ~game_over) => pc \in {"turn_end", "loop"})
    /\ (pc = "done" => game_over)

\* C8: when run_simulation stops, game_over is true and the winner is
\* exactly one of PLA or ROC, after at most MAX_TURNS turns.
C8_StopsWithWinner ==
    pc \in {"done", "raised"} =>
        /\ game_over
        /\ winner \in Faction
        /\ turn_number <= MAX_TURNS + 1

\* C9: every unit's strength is an integer in 0..100 after any sequence of
\* take_damage calls with non-negative percentages (above 100 included) and
\* of eliminations.
C9_StrengthRange ==
    \A u \in DOMAIN unit_objs : unit_objs[u].strength \in 0..100

C9_Witness ==
    /\ pc = "damage"
    /\ unit_objs["R1"].strength = 0
    /\ unit_objs["P1"].strength \in 1..99

\* C10: the End of Turn phase leaves no unit of strength 0 in the unit table
\* or in any hex's occupant list, and removes no unit of positive strength
\* from the table or from its hex.
C10_PurgeExact ==
    [][pc = "end_of_turn" =>
          /\ \A u \in Range(units') : unit_objs'[u].strength > 0
          /\ \A h \in HexIds : \A u \in Range(hexes'[h].units) :
                 u \in DOMAIN unit_objs' /\ unit_objs'[u].strength > 0
          /\ \A u \in Range(units) :
                 unit_objs[u].strength > 0 =>
                     /\ u \in Range(units')
                     /\ unit_objs'[u] = unit_objs[u]
                     /\ \A h \in HexIds :
                            u \in Range(hexes[h].units) => u \in Range(hexes'[h].units)]_vars

C10_Witness ==
    /\ pc = "turn_end"
    /\ "R1" \notin Range(units)
    /\ "P1" \in Range(units)
    /\ \A h \in HexIds : "R1" \notin Range(hexes[h].units)

\* C11: at every phase boundary, after any moves, retreats, landings and
\* purges, every unit in a hex's occupant list is a live unit whose
\* location_hex_id is that hex's id.
C11_OccupantsLocated ==
    \A h \in HexIds : \A u \in Range(hexes[h].units) :
        u \in DOMAIN unit_objs /\ unit_objs[u].location_hex_id = h

\* P2 has landed, R1 stands elsewhere than it started and P1 was purged
C11_Witness ==
    /\ "P2" \in Range(units)
    /\ \E h \in HexIds : "P2" \in Range(hexes[h].units)
    /\ "R1" \in Range(units)
    /\ unit_objs["R1"].location_hex_id # <<"A", 10>>
    /\ "P1" \notin Range(units)

\* the units the Supply Status phase looks at
PlacedUnits == {u \in Range(units) : unit_objs[u].location_hex_id # NoHex}

\* C12: after the Supply Status phase each placed unit is In_Supply exactly
\* when a path of at most MAX_SUPPLY_DISTANCE hops from its hex reaches a
\* supply source of its faction without entering a hex under enemy zone of
\* control; a unit standing on a supply source of its faction is In_Supply.
C12_SupplyDetermined ==
    pc = "action_PLA" =>
        \A u \in PlacedUnits :
            (unit_objs[u].supply_status = In_Supply) <=> SupplySearch(hexes, unit_objs, u)

\* C13: in each Supply Status phase the out-of-supply counter of a placed
\* unit goes up by exactly 1 when the unit has no supply path and becomes 0
\* when it has one.
C13_CounterTracksStarvation ==
    [][pc = "supply" =>
          \A u \in PlacedUnits :
              unit_objs'[u].turns_out_of_supply =
                  IF SupplySearch(hexes, unit_objs, u) THEN 0
                  ELSE unit_objs[u].turns_out_of_supply + 1]_vars

\* the call of SpecCombat has been made
Resolved == pc = "resolve_combat" /\ call_result # <<>>

\* what _resolve_combat computed in the state the call found
CallAttackers == SelectSeq(call_args.attacking_units, InUnits)
CallFaction == faction(CallAttackers[1])
CallTarget == call_args.target_hex
CallDefenders ==
    SelectSeq(call_result.hexes[CallTarget].units, LAMBDA u : faction(u) # CallFaction)
CallOdds == OddsRatio(CallAttackers, CallDefenders, CallTarget, call_result.unit_objs)
CallCell == combat_results_table[CrtRow(call_result.d20_roll)][CrtColumn(CallOdds)]

\* attack power twice the defense power, neither changed by a modifier
TwoToOneUnmodified ==
    /\ CallDefenders # <<>>
    /\ AttackPower(CallAttackers, call_result.unit_objs)
          = SumAttack(CallAttackers, call_result.unit_objs) * 10 * 10 * 10
    /\ DefensePower(CallDefenders, CallTarget, call_result.unit_objs)
          = SumDefense(CallDefenders, call_result.unit_objs) * 10 * 10 * 10
    /\ CallOdds[1] = 2 * CallOdds[2]

\* C14 (as amended): with attack power twice the defense power and no
\* modifiers the column is 2:1; a roll of 20 selects the DX-tagged cell, and
\* applying it sets every defender's strength to 0 and gives the target hex
\* to the attacking faction.
C14_TwoToOneRoll20 ==
    (Resolved /\ TwoToOneUnmodified /\ call_result.d20_roll = 20) =>
        /\ CrtColumn(CallOdds) = 3
        /\ ParseResult(CallCell).special = <<"D", "X">>
        /\ \A i \in 1..Len(CallDefenders) : unit_objs[CallDefenders[i]].strength = 0
        /\ hexes[CallTarget].owner = CallFaction

C14_Witness ==
    /\ Resolved
    /\ TwoToOneUnmodified
    /\ call_result.d20_roll = 20
    /\ call_result.hexes[CallTarget].owner # CallFaction
    /\ hexes[CallTarget].owner = CallFaction
    /\ \E i \in 1..Len(CallDefenders) : call_result.unit_objs[CallDefenders[i]].strength > 0

\* C14 (as stated): the cell selected at 2:1 by a roll of 20 carries the AX
\* tag, and applying it eliminates the defenders and transfers the hex.
C14_AsStatedAX ==
    (Resolved /\ TwoToOneUnmodified /\ call_result.d20_roll = 20) =>
        /\ CrtColumn(CallOdds) = 3
        /\ ParseResult(CallCell).special = <<"A", "X">>
        /\ \A i \in 1..Len(CallDefenders) : unit_objs[CallDefenders[i]].strength = 0
        /\ hexes[CallTarget].owner = CallFaction

\* C18: after a combat against a hex that held defenders, the target hex
\* passes to the attacking faction if and only if no defender with positive
\* strength is still located in it and the attackers did not own it already.
C18_CaptureIffVacated ==
    (Resolved /\ CallDefenders # <<>>) =>
        ((hexes[CallTarget].owner = CallFaction
            /\ call_result.hexes[CallTarget].owner # CallFaction)
         <=>
         (/\ \A i \in 1..Len(CallDefenders) :
                ~(/\ unit_objs[CallDefenders[i]].strength > 0
                  /\ unit_objs[CallDefenders[i]].location_hex_id = CallTarget)
          /\ call_result.hexes[CallTarget].owner # CallFaction))

\* C19: a combat declared against a hex that holds no unit opposing the
\* attackers gives the hex to the attackers' faction and changes nothing else:
\* every unit and every occupant list is as before, no other hex changes owner,
\* and the outcome is the same whatever the d20 would show.
C19_StaleTargetCaptured ==
    (Resolved /\ CallDefenders = <<>>) =>
        /\ hexes[CallTarget].owner = CallFaction
        /\ unit_objs = call_result.unit_objs
        /\ \A h \in HexIds : hexes[h].units = call_result.hexes[h].units
        /\ \A h \in HexIds \ {CallTarget} : hexes[h].owner = call_result.hexes[h].owner
        /\ \A d20_roll \in 1..D20_SIDES :
              resolve_combat([hexes |-> call_result.hexes, unit_objs |-> call_result.unit_objs],
                             call_args, d20_roll)
                  = {[hexes |-> hexes, unit_objs |-> unit_objs]}

C19_Witness ==
    /\ Resolved
    /\ CallDefenders = <<>>
    /\ call_result.hexes[CallTarget].owner # CallFaction
    /\ hexes[CallTarget].owner = CallFaction
    /\ \E h \in HexIds : hexes[h].units # <<>>

\* the hexes next to the target that hold no unit of the attacking faction
\* and lie outside its zone of control, in the state the combat left
EligibleRetreats ==
    {n \in Range(get_neighbors(CallTarget)) :
        /\ \A u \in Range(hexes[n].units) : faction(u) # CallFaction
        /\ ~ZocIn(hexes, unit_objs, n, OtherFaction(CallFaction))}

\* the call drew a cell tagged DefenderRetreat against a defended hex
RetreatOrdered ==
    /\ Resolved
    /\ CallDefenders # <<>>
    /\ ParseResult(CallCell).special = <<"D", "R">>

\* C20: when the result carries DefenderRetreat and an eligible hex exists,
\* every defender left with positive strength ends in a hex adjacent to the
\* target that holds no attacking unit and is outside the attackers' zone of
\* control, and the target hex no longer lists it.
C20_RetreatToEligibleHex ==
    (RetreatOrdered /\ EligibleRetreats # {}) =>
        \A d \in Range(CallDefenders) :
            unit_objs[d].strength > 0 =>
                /\ unit_objs[d].location_hex_id \in EligibleRetreats
                /\ d \in Range(hexes[unit_objs[d].location_hex_id].units)
                /\ d \notin Range(hexes[CallTarget].units)

C20_Witness ==
    /\ RetreatOrdered
    /\ \E n \in Range(get_neighbors(CallTarget)) : n \notin EligibleRetreats
    /\ \E d \in Range(CallDefenders) :
          /\ unit_objs[d].strength > 0
          /\ call_result.unit_objs[d].location_hex_id = CallTarget
          /\ unit_objs[d].location_hex_id \in EligibleRetreats

\* the distance call of SpecDistance has returned
DistanceReturned == pc = "get_hex_distance" /\ call_result # <<>>

\* C16: over the hexes of the map the distance is symmetric, is 0 exactly
\* for a hex and itself, is 1 for every pair that the adjacency map lists as
\* neighbours, and is infinite when either id is not a hex of the map.
C16_HexDistance ==
    DistanceReturned =>
        LET a == call_args[1]
            b == call_args[2]
            dist == call_result[1]
        IN  IF a \notin hex_map \/ b \notin hex_map
            THEN dist = Infinity /\ HexDistanceIn(hex_map, b, a) = Infinity
            ELSE /\ dist \in Nat
                 /\ dist = HexDistanceIn(hex_map, b, a)
                 /\ dist = 0 <=> a = b
                 /\ b \in Range(HexNeighborsIn(hex_map, a)) => dist = 1

C16_Witness ==
    /\ DistanceReturned
    /\ call_args[1] \in hex_map
    /\ call_args[2] \in Range(HexNeighborsIn(hex_map, call_args[1]))
    /\ hex_coords(call_args[2])[1] = hex_coords(call_args[1])[1] + 1
    /\ hex_coords(call_args[2])[2] = hex_coords(call_args[1])[2] - 1
    /\ call_result[1] = 1

\* str() of a natural number, as a sequence of characters
RECURSIVE DecimalOf(_)
DecimalOf(n) ==
    LET last == CHOOSE c \in Digits : DigitValue(c) = n % 10
    IN  IF n < 10 THEN <<last>> ELSE DecimalOf(n \div 10) \o <<last>>

\* the cell that is written with the parts of the match m
FormatResult(m) ==
    <<"A", "-">> \o DecimalOf(m.attacker_loss) \o <<"/", "D", "-">>
        \o DecimalOf(m.defender_loss)
        \o (IF m.special = <<>> THEN <<>> ELSE <<"_">> \o m.special)

SpecialTags == {<<>>, <<"D", "R">>, <<"A", "R">>, <<"D", "X">>, <<"A", "X">>}

\* the parse of SpecParse has returned
ParseReturned == pc = "apply_combat_result" /\ call_result # <<>>

\* C17: the table has 5 rows of 5 cells, and every cell parses into one
\* attacker loss, one defender loss and an optional tag out of
\* {none, DR, AR, DX, AX}: the three parts written out again are the cell.
C17_CellsParse ==
    /\ Len(combat_results_table) = 5
    /\ \A r \in 1..5 : Len(combat_results_table[r]) = 5
    /\ (ParseReturned /\ call_args \in TableCells) =>
          /\ call_result.ok
          /\ call_result.attacker_loss \in 0..100
          /\ call_result.defender_loss \in 0..100
          /\ call_result.special \in SpecialTags
          /\ FormatResult(call_result) = call_args

C17_Witness ==
    /\ ParseReturned
    /\ call_args = combat_results_table[4][1]
    /\ call_result.special = <<"A", "R">>
    /\ call_result.attacker_loss = 10

\* the legal-action call of SpecActions has returned
ActionsReturned == pc = "get_possible_actions" /\ call_result # <<>>

\* u is a unit the call generates attacks for: of the faction passed, alive,
\* neither moved nor attacked, placed, and no artillery or engineer
CanDeclare(u) ==
    /\ faction(u) = call_args
    /\ unit_objs[u].strength > 0
    /\ ~unit_objs[u].has_moved
    /\ ~unit_objs[u].has_attacked
    /\ unit_objs[u].location_hex_id # NoHex
    /\ unit_type(u) \notin {"Artillery", "Engineer"}

\* the enemy-occupied hexes next to u
EnemyTargets(u) ==
    {t \in Range(get_neighbors(unit_objs[u].location_hex_id)) : HasEnemyUnit(t, call_args)}

\* a unit before u in the unit table, standing in another hex, is next to t too
ClaimedEarlier(u, t) ==
    \E i, j \in 1..Len(units) :
        /\ units[j] = u
        /\ i < j
        /\ CanDeclare(units[i])
        /\ unit_objs[units[i]].location_hex_id # unit_objs[u].location_hex_id
        /\ t \in Range(get_neighbors(unit_objs[units[i]].location_hex_id))

\* a unit with no movement points left that has an enemy-occupied hex next to it
Immobile(u) ==
    /\ u \in Range(units)
    /\ CanDeclare(u)
    /\ unit_objs[u].movement_points = 0
    /\ EnemyTargets(u) # {}

NoMoveFor(u) ==
    \A i \in 1..Len(call_result) :
        ~(call_result[i].action = MOVE /\ call_result[i].unit_id = u)

AttacksWith(u, t) ==
    \E i \in 1..Len(call_result) :
        /\ call_result[i].action = ATTACK
        /\ call_result[i].target_hex = t
        /\ InSeq(u, call_result[i].attacking_units)

TerrainCategories ==
    {"Plains", "Hills", "Mountain", "Urban", "Forest", "River_Crossing", "Coastal", "Ocean"}

AfterDefenderLoss(d) ==
    LET m == ParseResult(CallCell)
    IN  IF m.defender_loss > 0
        THEN take_damage(call_result.unit_objs[d].strength, m.defender_loss)
        ELSE call_result.unit_objs[d].strength

\* C21: when the result carries DefenderRetreat and no eligible hex exists,
\* every defender that survived the percentage loss stays in the target hex
\* and loses one fixed amount k of strength, the same for every defender
\* whatever its strength (floored at 0), and nothing is raised.
C21_FlatPenaltyWithoutRetreat ==
    (RetreatOrdered /\ EligibleRetreats = {}) =>
        /\ raised = "None"
        /\ \E k \in 1..100 :
              \A d \in Range(CallDefenders) :
                  AfterDefenderLoss(d) > 0 =>
                      /\ unit_objs[d].location_hex_id = CallTarget
                      /\ d \in Range(hexes[CallTarget].units)
                      /\ unit_objs[d].strength =
                            (IF AfterDefenderLoss(d) > k THEN AfterDefenderLoss(d) - k ELSE 0)

\* the cost of a path in half points: the hexes entered, not the start
RECURSIVE PathCostHalves(_)
PathCostHalves(path) ==
    IF Len(path) <= 1 THEN 0
    ELSE MovementCostHalves(terrain_type(path[Len(path)]))
            + PathCostHalves(SubSeq(path, 1, Len(path) - 1))

MoveRecords == {i \in 1..Len(call_result) : call_result[i].action = MOVE}

\* C22: every MOVE action of the list has a path that starts at the unit's
\* hex, steps between adjacent hexes only, costs no more than the unit's
\* movement points, and has no hex under enemy zone of control except
\* possibly its first and its last.
C22_MovePathsLegal ==
    ActionsReturned =>
        \A i \in MoveRecords :
            LET path == call_result[i].path
                u == call_result[i].unit_id
            IN  /\ Len(path) >= 2
                /\ path[1] = unit_objs[u].location_hex_id
                /\ \A k \in 1..(Len(path) - 1) :
                      path[k + 1] \in Range(get_neighbors(path[k]))
                /\ PathCostHalves(path) <= 2 * unit_objs[u].movement_points
                /\ \A k \in 2..(Len(path) - 1) : ~is_in_enemy_zoc(path[k], call_args)

C22_Witness ==
    /\ ActionsReturned
    /\ \E i \in MoveRecords :
          /\ Len(call_result[i].path) >= 3
          /\ is_in_enemy_zoc(call_result[i].path[Len(call_result[i].path)], call_args)
    /\ \E i \in MoveRecords :
          /\ unit_objs[call_result[i].unit_id].movement_points = 1
          /\ PathCostHalves(call_result[i].path) = 2

AttackRecords == {i \in 1..Len(call_result) : call_result[i].action = ATTACK}

\* C23: the list holds at most one ATTACK action per target hex; every ATTACK
\* action targets a hex that holds an enemy unit and is adjacent to the one
\* hex in which all of its attacking units stand.
C23_OneAttackPerTarget ==
    ActionsReturned =>
        /\ \A i, j \in AttackRecords :
              call_result[i].target_hex = call_result[j].target_hex => i = j
        /\ \A i \in AttackRecords :
              /\ HasEnemyUnit(call_result[i].target_hex, call_args)
              /\ call_result[i].attacking_units # <<>>
              /\ \E h \in HexIds :
                    /\ \A a \in Range(call_result[i].attacking_units) :
                          unit_objs[a].location_hex_id = h /\ a \in Range(hexes[h].units)
                    /\ call_result[i].target_hex \in Range(get_neighbors(h))

C23_Witness ==
    /\ ActionsReturned
    /\ \E u, v \in AllUnits : \E t \in EnemyTargets(u) \cap EnemyTargets(v) :
          /\ CanDeclare(u) /\ CanDeclare(v)
          /\ unit_objs[u].location_hex_id # unit_objs[v].location_hex_id
          /\ \E i \in AttackRecords : call_result[i].target_hex = t
    /\ \E i, j \in AttackRecords : i # j

\* the sum of val over the units of a stack
RECURSIVE StackSum(_, _)
StackSum(us, val) ==
    IF us = <<>> THEN 0 ELSE val[Head(us)] + StackSum(Tail(us), val)

\* the attack power of the stated formula, in 1/PowerDen: base attack times
\* strength / 100 summed, times 1.2 for a faction with close air support,
\* times 0.5 when an attacker is Out_Of_Supply
StatedAttackPower ==
    StackSum(CallAttackers,
             [u \in Range(CallAttackers) |->
                 base_attack(u) * call_result.unit_objs[u].strength])
        * 10
        * (IF CallFaction = PLA THEN 12 ELSE 10)
        * (IF \E u \in Range(CallAttackers) :
                 call_result.unit_objs[u].supply_status = Out_Of_Supply
           THEN 5 ELSE 10)

\* the defense power of the stated formula, in 1/PowerDen: base defense
\* times strength / 100 summed, times the terrain multiplier, times 1.5 when
\* a defender is fortified, times 0.5 when a defender is Out_Of_Supply
StatedDefensePower ==
    StackSum(CallDefenders,
             [u \in Range(CallDefenders) |->
                 base_defense(u) * call_result.unit_objs[u].strength])
        * (CASE terrain_type(CallTarget) = "Urban" -> 20
             [] terrain_type(CallTarget) = "Hills" -> 15
             [] OTHER -> 10)
        * (IF \E u \in Range(CallDefenders) : call_result.unit_objs[u].is_fortified
           THEN 15 ELSE 10)
        * (IF \E u \in Range(CallDefenders) :
                 call_result.unit_objs[u].supply_status = Out_Of_Supply
           THEN 5 ELSE 10)

\* C24: the odds ratio of a combat is the attack power (base attack times
\* strength / 100 summed over the attackers, times 1.2 with close air
\* support, times 0.5 when any attacker is out of supply) divided by the
\* defense power (base defense times strength / 100 summed over the
\* defenders, times the terrain multiplier, times 1.5 when any defender is
\* fortified, times 0.5 when any defender is out of supply), each multiplier
\* once, and the fixed fallback ratio of column 4:1+ when the defense power
\* is zero: the computed ratio has this numerator and this denominator and
\* stands to every column boundary as their quotient does.
C24_OddsRatioAsStated ==
    (Resolved /\ CallDefenders # <<>>) =>
        IF StatedDefensePower > 0
        THEN /\ CallOdds[1] = StatedAttackPower
             /\ CallOdds[2] = StatedDefensePower
             /\ ~CallOdds[3]
        ELSE /\ CallOdds = << FALLBACK_ODDS, 1, FALSE >>
             /\ CrtColumn(CallOdds) = 5

\* the column the stated thresholds give the quotient n / d
StatedColumn(n, d) ==
    IF 4 * n < 3 * d THEN 1
    ELSE IF 2 * n < 3 * d THEN 2
    ELSE IF 2 * n < 5 * d THEN 3
    ELSE IF 2 * n < 7 * d THEN 4
    ELSE 5

\* the row band of a roll: 1-5, 6-10, 11-15, 16-19, 20
StatedRow(roll) ==
    CHOOSE r \in 1..5 :
        roll \in CASE r = 1 -> 1..5
                   [] r = 2 -> 6..10
                   [] r = 3 -> 11..15
                   [] r = 4 -> 16..19
                   [] OTHER -> {20}

\* C25: the result cell is the one in the column the odds ratio selects
\* (1:2 below 0.75, 1:1 below 1.5, 2:1 below 2.5, 3:1 below 3.5, else 4:1+)
\* and the row band of the d20 roll (1-5, 6-10, 11-15, 16-19, 20); every
\* odds ratio and every roll of 1..20 select exactly one cell.
C25_CellByColumnAndBand ==
    (Resolved /\ CallDefenders # <<>>) =>
        /\ call_result.d20_roll \in 1..20
        /\ CrtRow(call_result.d20_roll) = StatedRow(call_result.d20_roll)
        /\ CrtColumn(CallOdds)
              = IF StatedDefensePower > 0
                THEN StatedColumn(StatedAttackPower, StatedDefensePower)
                ELSE 5
        /\ CallCell \in TableCells

\* a placed unit of faction f with positive strength that has neither moved
\* nor attacked
FortifyCandidate(u, f) ==
    /\ faction(u) = f
    /\ unit_objs[u].location_hex_id # NoHex
    /\ unit_objs[u].strength > 0
    /\ ~unit_objs[u].has_moved
    /\ ~unit_objs[u].has_attacked

\* the list of faction f holds PASS exactly once and a FORTIFY record for
\* every candidate unit
PassAndFortifyOffered(f) ==
    LET list == get_possible_actions(f)
    IN  /\ Cardinality({i \in 1..Len(list) : list[i].action = PASS}) = 1
        /\ \A u \in Range(units) :
              FortifyCandidate(u, f) =>
                  \E i \in 1..Len(list) :
                      list[i].action = FORTIFY /\ list[i].unit_id = u

PassAlone(f) ==
    LET list == get_possible_actions(f)
    IN  Len(list) = 1 /\ list[1].action = PASS

\* a step that leaves the turn, the outcome, the map, the units, the pool and
\* the combat queue as they were, and declares nothing
GameStateKept ==
    UNCHANGED <<turn_number, game_over, winner, raised, is_roc_interdicted,
                pla_amphibious_lift_capacity, hexes, units, unit_objs,
                pla_reinforcement_pool, pending_combats, declared_log,
                resolved_log>>

\* C26 (amended): the legal-action list of a faction always holds PASS
\* exactly once and a FORTIFY action for every placed unit of the faction
\* with positive strength that has neither moved nor attacked; when the list
\* is PASS alone, the faction's action phase sets the current phase to
\* Player Action and changes nothing else: no strategy choice is executed or
\* declared.
C26_PassOfferedPhaseKeepsGame ==
    [][\A f \in Faction :
          /\ PassAndFortifyOffered(f)
          /\ (pc = ActionPc(f) /\ PassAlone(f)) =>
                 /\ GameStateKept
                 /\ current_phase' = PLAYER_ACTION]_vars

\* a PASS-only action phase of a faction has just run while the other
\* faction has a unit that is offered FORTIFY
C26_Witness ==
    \E f \in Faction :
        /\ pc = AfterPhase(ActionPc(f))
        /\ phase_log # <<>>
        /\ phase_log[Len(phase_log)] = <<PLAYER_ACTION, f>>
        /\ PassAlone(f)
        /\ \E u \in Range(units) : FortifyCandidate(u, OtherFaction(f))

\* C26 as stated: as above, and when the list is PASS alone the faction's
\* action phase changes no state at all.
C26_AsStatedNoStateChange ==
    [][\A f \in Faction :
          /\ PassAndFortifyOffered(f)
          /\ (pc = ActionPc(f) /\ PassAlone(f)) =>
                 /\ GameStateKept
                 /\ current_phase' = current_phase]_vars

\* the phase of SpecCells has run
CellsResolved == pc = "combat_cells" /\ call_result # <<>>

\* the cell begins with A-<n>/D-<n>: "A-", one digit or more, "/D-", a digit
MatchesGrammar(cell) ==
    \E i \in 3..(Len(cell) - 4) :
        /\ cell[1] = "A" /\ cell[2] = "-"
        /\ \A j \in 3..i : cell[j] \in Digits
        /\ cell[i + 1] = "/" /\ cell[i + 2] = "D" /\ cell[i + 3] = "-"
        /\ cell[i + 4] \in Digits

\* the units in the attackers' list and in the target hex of combat k when
\* the phase began
CombatUnits(k) ==
    Range(call_result.combats[k].attacking_units)
        \cup Range(call_result.hexes[call_result.combats[k].target_hex].units)

LossApplied == pc = "take_damage" /\ call_result # <<>>

\* d is an integer nearest to n / 100
NearestHundredth(d, n) == 2 * (100 * d - n) <= 100 /\ 2 * (n - 100 * d) <= 100

\* C28: a percentage loss p on a unit of current strength s removes
\* s * p / 100 rounded to a nearest integer, computed from the strength at
\* the call, and the new strength is floored at 0: for every s in 0..100 and
\* every percentage of the results table, the values where s * p / 100 is
\* halfway between two integers included.
C28_LossRoundedToNearest ==
    LossApplied =>
        LET s == call_result.strength
            new == unit_objs[call_args.unit_id].strength
        IN  /\ s \in 0..100
            /\ \E d \in 0..100 :
                  /\ NearestHundredth(d, s * call_args.percentage)
                  /\ new = IF s - d < 0 THEN 0 ELSE s - d
            /\ \A v \in DOMAIN unit_objs :
                  v # call_args.unit_id => unit_objs[v].strength = 100

\* a loss that was exactly halfway between two integers has been applied
C28_Witness ==
    /\ LossApplied
    /\ (call_result.strength * call_args.percentage) % 100 = 50
    /\ unit_objs[call_args.unit_id].strength < call_result.strength

\* the call of SpecLanding has been made
LandingDone == pc = "logistics_call" /\ call_result # <<>>

\* the positions of the pool as the phase found it, and those whose unit has
\* left the pool
PoolPositions == 1..Len(call_result.pool)
LandedPositions == {i \in PoolPositions : ~InSeq(call_result.pool[i], pla_reinforcement_pool)}

\* the lift cost of the units at the positions P, in 1/LiftScale
RECURSIVE LiftOf(_)
LiftOf(P) ==
    IF P = {} THEN 0
    ELSE LET i == CHOOSE j \in P : TRUE
         IN  lift_cost(call_result.pool[i]) * LiftScale + LiftOf(P \ {i})

\* the capacity left when the scan reaches position i
RemainingAt(i) ==
    pla_amphibious_lift_capacity - LiftOf({j \in LandedPositions : j < i})

\* the PLA-owned Coastal hexes the phase found
PlaCoastalHexes ==
    {h \in DOMAIN call_result.hexes :
        terrain_type(h) = "Coastal" /\ call_result.hexes[h].owner = PLA}

\* the total landed is within the capacity, and the units left in the pool
\* keep their order
LandingWithinCapacity ==
    /\ LiftOf(LandedPositions) <= pla_amphibious_lift_capacity
    /\ pla_reinforcement_pool
          = SelectSeq(call_result.pool, LAMBDA u : InSeq(u, pla_reinforcement_pool))
    /\ \A i \in LandedPositions : InSeq(call_result.pool[i], units)

\* C29 (amended): when PLA owns a Coastal hex, the pool is scanned in pool
\* order and a unit is landed if and only if its lift cost is not above the
\* capacity remaining after the landings made earlier in the phase; when PLA
\* owns no Coastal hex nothing is landed.  The total lift cost landed never
\* exceeds the turn's capacity and the units not landed stay in the pool in
\* their original relative order.
C29_FirstFitWithLandingZone ==
    LandingDone =>
        /\ LandingWithinCapacity
        /\ IF PlaCoastalHexes = {}
           THEN LandedPositions = {}
           ELSE \A i \in PoolPositions :
                   i \in LandedPositions
                       <=> lift_cost(call_result.pool[i]) * LiftScale <= RemainingAt(i)

\* the second unit of a pool of three did not fit and the third was landed
C29_Witness ==
    /\ LandingDone
    /\ Len(call_result.pool) = 3
    /\ LandedPositions = {1, 3}
    /\ pla_reinforcement_pool = <<call_result.pool[2]>>

\* C29 as stated: a unit is landed if and only if its lift cost is not above
\* the capacity remaining after the earlier landings of the phase, whatever
\* PLA owns.
C29_AsStatedFirstFit ==
    LandingDone =>
        /\ LandingWithinCapacity
        /\ \A i \in PoolPositions :
              i \in LandedPositions
                  <=> lift_cost(call_result.pool[i]) * LiftScale <= RemainingAt(i)

\* the occupants of hex h when the unit at pool position i lands: those the
\* phase found and the units landed there from earlier positions
OccupantsAt(h, i) ==
    Len(call_result.hexes[h].units)
        + Cardinality({j \in LandedPositions :
                          j < i /\ unit_objs[call_result.pool[j]].location_hex_id = h})

\* C30: every unit landed from the pool is placed on a Coastal PLA-owned
\* hex whose occupant count at the moment the unit lands, the units landed
\* earlier in the phase counted, is minimal among the PLA-owned Coastal
\* hexes.
C30_LandsAtLeastOccupiedZone ==
    LandingDone =>
        \A i \in LandedPositions :
            LET u == call_result.pool[i]
                h == unit_objs[u].location_hex_id
            IN  /\ h \in PlaCoastalHexes
                /\ InSeq(u, hexes[h].units)
                /\ hexes[h].owner = PLA
                /\ \A z \in PlaCoastalHexes : OccupantsAt(h, i) <= OccupantsAt(z, i)

\* two units were landed on different hexes, the second on a hex that was
\* not the least occupied one when the phase began
C30_Witness ==
    /\ LandingDone
    /\ {1, 2} \subseteq LandedPositions
    /\ unit_objs[call_result.pool[1]].location_hex_id
          # unit_objs[call_result.pool[2]].location_hex_id
    /\ \E z \in PlaCoastalHexes :
          Len(call_result.hexes[z].units)
              < Len(call_result.hexes[unit_objs[call_result.pool[2]].location_hex_id].units)

\* C31: no step of a run increases a unit's strength: in combat and outside
\* it, the strength of every unit after a step is at most its strength
\* before the step, so it never rises above the initial strength.
C31_StrengthNeverIncreases ==
    [][\A u \in DOMAIN unit_objs \cap DOMAIN unit_objs' :
          unit_objs'[u].strength <= unit_objs[u].strength]_vars

\* a combat has been resolved that cost one unit a part of its strength and
\* another unit all of it
C31_Witness ==
    /\ pc = "logistics"
    /\ resolved_log # <<>>
    /\ \E u, v \in DOMAIN unit_objs :
          /\ unit_objs[u].strength \in 1..99
          /\ unit_objs[v].strength = 0

\* C32: when the strategies return only records of the legal-action list
\* they were given, every unit that takes part in a resolved combat as an
\* attacker stands, when the combat is resolved, in a hex adjacent to the
\* combat's target hex: so it is for every queued combat when the Combat
\* Resolution phase begins, and attackers are not moved during the phase.
C32_AttackersAdjacentAtResolution ==
    pc = "combat" =>
        \A i \in 1..Len(pending_combats) :
            \A a \in Range(pending_combats[i].attacking_units) :
                InUnits(a) =>
                    pending_combats[i].target_hex
                        \in Range(get_neighbors(unit_objs[a].location_hex_id))

\* C33: at every phase boundary no hex holds units with positive strength
\* of both factions at once, whatever legal moves, retreats and
\* reinforcement landings came before.
C33_NoHexHoldsBothFactions ==
    \A h \in DOMAIN hexes :
        \A u, v \in Range(hexes[h].units) :
            (unit_objs[u].strength > 0 /\ unit_objs[v].strength > 0)
                => faction(u) = faction(v)

\* C34: the owner of a hex changes only in the step that resolves the queued
\* combats of the Combat Resolution phase, for a hex that is the target of
\* one of them, and only to the faction of that combat's attacking units;
\* moving, fortifying, the supply phase, landing and the end-of-turn purge
\* leave every owner as it was.
C34_OwnerChangesOnlyInCombat ==
    [][\A h \in HexIds :
          hexes'[h].owner # hexes[h].owner =>
              /\ pc = "combat"
              /\ \E i \in 1..Len(pending_combats) :
                    /\ pending_combats[i].target_hex = h
                    /\ pending_combats[i].attacking_units # <<>>
                    /\ \A a \in Range(pending_combats[i].attacking_units) :
                          faction(a) = hexes'[h].owner]_vars

\* a combat has taken a hex from its initial owner, while a unit that moved
\* stands in a hex whose owner is still the other faction
C34_Witness ==
    /\ pc = "logistics"
    /\ resolved_log # <<>>
    /\ \E h \in HexIds : hexes[h].owner # InitialHexes[h].owner
    /\ \E u \in Range(units) :
          /\ unit_objs[u].strength > 0
          /\ unit_objs[u].has_moved
          /\ ~InSeq(u, InitialHexes[unit_objs[u].location_hex_id].units)
          /\ hexes[unit_objs[u].location_hex_id].owner # faction(u)

\* C35: from a start in which every hex is owned by ROC and every PLA unit
\* is in the reinforcement pool, in every reachable state no PLA unit is in
\* play, the pool is as it was built and no hex is owned by PLA, whatever
\* the strategies return and whatever the random draws.
C35_PlaNeverComesAshore ==
    /\ \A i \in 1..Len(units) : faction(units[i]) # PLA
    /\ \A h \in HexIds :
          /\ hexes[h].owner # PLA
          /\ \A u \in Range(hexes[h].units) : faction(u) # PLA
    /\ pla_reinforcement_pool = call_args
    /\ \A u \in Range(pla_reinforcement_pool) : unit_objs[u].location_hex_id = NoHex

\* the Logistics phase has run over a pool of two units after ROC, from the
\* Coastal hex, had a combat declared that was resolved in the turn
C35_Witness ==
    /\ pc = "end_of_turn"
    /\ Len(pla_reinforcement_pool) = 2
    /\ resolved_log # <<>>
    /\ \E u \in Range(units) :
          /\ terrain_type(unit_objs[u].location_hex_id) = "Coastal"
          /\ unit_objs[u].has_moved

\* C36: while the list returned for faction F's Player Action phase is
\* executed, only units of F have their location or their per-turn flags
\* changed, and only units of F are recorded as attackers in the
\* pending-combat queue, whatever records the strategy returns.
C36_OnlyOwnUnitsActed ==
    [][\A f \in Faction :
          pc = ActionPc(f) =>
              /\ \A u \in DOMAIN unit_objs :
                    faction(u) # f =>
                        /\ unit_objs'[u].location_hex_id = unit_objs[u].location_hex_id
                        /\ unit_objs'[u].has_moved = unit_objs[u].has_moved
                        /\ unit_objs'[u].has_attacked = unit_objs[u].has_attacked
                        /\ unit_objs'[u].is_fortified = unit_objs[u].is_fortified
                        /\ unit_objs'[u].is_supporting_arty
                              = unit_objs[u].is_supporting_arty
              /\ \A i \in (Len(pending_combats) + 1)..Len(pending_combats') :
                    \A a \in Range(pending_combats'[i].attacking_units) :
                        a \in DOMAIN unit_objs => faction(a) = f]_vars

\* the unit carries none of the four per-turn flags
Unflagged(o) ==
    ~o.has_moved /\ ~o.has_attacked /\ ~o.is_fortified /\ ~o.is_supporting_arty

\* a record of a returned list relocates a unit only if it is a MOVE and the
\* unit carries no per-turn flag, and it leaves has_moved set
MoveNeedsUnflagged ==
    \A f \in Faction :
        pc = ActionPc(f) =>
            \A chosen \in StrategyOutputs(get_possible_actions(f)) :
                \A k \in 1..Len(chosen) :
                    LET before == ExecuteAll(Engine, SubSeq(chosen, 1, k - 1))
                        after == ExecuteAction(before, chosen[k])
                    IN  \A u \in Range(units) :
                            after.unit_objs[u].location_hex_id
                                  # before.unit_objs[u].location_hex_id =>
                                /\ chosen[k].action = MOVE
                                /\ Unflagged(before.unit_objs[u])
                                /\ after.unit_objs[u].has_moved

\* C37: within one turn a unit's location is changed by the execution of a
\* MOVE at most once, and never after the unit was in that turn declared as
\* an attacker, fortified or committed to artillery support: a MOVE
\* relocates only a unit without per-turn flags and flags it, and the flag
\* stays set in every later step of the turn.  When the first phase of a
\* turn begins, the four flags of every unit in play are false.
C37_OneMovePerTurn ==
    /\ [](MoveNeedsUnflagged
            /\ (pc = "air_sea" => \A u \in Range(units) : Unflagged(unit_objs[u])))
    /\ [][pc # "loop" =>
             \A u \in Range(units) \cap Range(units') :
                 unit_objs[u].has_moved => unit_objs'[u].has_moved]_vars

\* the second turn begins with R1 two hexes from the capital it started in,
\* which it can only have reached by a MOVE of the first turn
C37_Witness ==
    /\ pc = "air_sea"
    /\ turn_number = 2
    /\ InUnits("R1")
    /\ unit_objs["R1"].location_hex_id = <<"B", 11>>

InPool(u) == InSeq(u, pla_reinforcement_pool)

\* the unit is in neither the pool nor the unit table
Gone(u) == ~InPool(u) /\ ~InUnits(u)

InSomeHex(u) == \E h \in HexIds : InSeq(u, hexes[h].units)

\* pool and table are disjoint and list no unit twice; a pooled unit has no
\* location and stands in no hex; a unit of neither stands in no hex
ThreeConditions ==
    \A u \in AllUnits :
        /\ ~(InPool(u) /\ InUnits(u))
        /\ Cardinality({i \in 1..Len(units) : units[i] = u}) <= 1
        /\ Cardinality({i \in 1..Len(pla_reinforcement_pool) :
                           pla_reinforcement_pool[i] = u}) <= 1
        /\ InPool(u) => (unit_objs[u].location_hex_id = NoHex /\ ~InSomeHex(u))
        /\ Gone(u) => ~InSomeHex(u)

\* C38: every unit is at all times in exactly one of three conditions: in
\* the PLA pool with no location, in play in the unit table, or destroyed;
\* it is never in pool and table at once; it leaves the pool only by landing
\* in the Logistics phase, which puts it in the table and in a hex; and a
\* destroyed unit never comes back to the pool, the table or a hex.
C38_PoolTableOrDestroyed ==
    /\ []ThreeConditions
    /\ [][\A u \in AllUnits :
             /\ (InPool(u) /\ ~InSeq(u, pla_reinforcement_pool')) =>
                   /\ pc = "logistics"
                   /\ InSeq(u, units')
                   /\ unit_objs'[u].location_hex_id \in HexIds
                   /\ InSeq(u, hexes'[unit_objs'[u].location_hex_id].units)
             /\ (Gone(u) /\ u \notin DOMAIN unit_objs) =>
                   /\ ~InSeq(u, pla_reinforcement_pool')
                   /\ ~InSeq(u, units')
                   /\ u \notin DOMAIN unit_objs']_vars

\* P2 has landed from the pool and is in play after another unit was
\* destroyed and purged
C38_Witness ==
    /\ InUnits("P2")
    /\ pla_reinforcement_pool = <<>>
    /\ InSeq("P2", hexes[unit_objs["P2"].location_hex_id].units)
    /\ \E u \in {"R1", "P1"} : Gone(u) /\ ~InSomeHex(u)

\* u is a unit the call generates moves for: of the faction passed, alive,
\* neither moved nor attacked, and placed
MoveEligible(u) ==
    /\ InUnits(u)
    /\ faction(u) = call_args
    /\ unit_objs[u].strength > 0
    /\ ~unit_objs[u].has_moved
    /\ ~unit_objs[u].has_attacked
    /\ unit_objs[u].location_hex_id # NoHex

\* the walks of at most n steps from h, each step to an adjacent hex; n one
\* less than the number of hexes covers every path that repeats no hex
RECURSIVE WalksFrom(_, _)
WalksFrom(h, n) ==
    IF n = 0 THEN {<<h>>}
    ELSE LET shorter == WalksFrom(h, n - 1)
         IN  shorter \cup
             UNION { {Append(p, x) : x \in Range(get_neighbors(p[Len(p)]))} :
                     p \in shorter }

\* the paths u can afford: from its hex, between adjacent hexes, within its
\* movement points, with no hex under enemy zone of control between the
\* first and the last
AffordablePaths(u) ==
    {path \in WalksFrom(unit_objs[u].location_hex_id, Cardinality(DOMAIN hexes) - 1) :
        /\ Len(path) >= 2
        /\ PathCostHalves(path) <= 2 * unit_objs[u].movement_points
        /\ \A k \in 2..(Len(path) - 1) : ~is_in_enemy_zoc(path[k], call_args)}

\* C39: move generation is complete: for every eligible unit and every hex
\* other than its own to which some path leads that costs no more than the
\* unit's movement points and has no intermediate hex under enemy zone of
\* control, the list holds a MOVE of the unit ending at that hex; and it
\* holds at most one MOVE per unit and destination.
C39_MovesComplete ==
    ActionsReturned =>
        \A u \in Range(units) :
            MoveEligible(u) =>
                /\ \A path \in AffordablePaths(u) :
                      path[Len(path)] # unit_objs[u].location_hex_id =>
                          \E i \in MoveRecords :
                              /\ call_result[i].unit_id = u
                              /\ call_result[i].path[Len(call_result[i].path)]
                                    = path[Len(path)]
                /\ \A i, j \in MoveRecords :
                      (/\ call_result[i].unit_id = u
                       /\ call_result[j].unit_id = u
                       /\ call_result[i].path[Len(call_result[i].path)]
                             = call_result[j].path[Len(call_result[j].path)]) => i = j

====
